---- MODULE Spec2Model ----
(***************************************************************************)
(* Invoice Management System (src/app.py, src/test.py).                    *)
(*                                                                         *)
(* The remote data store (the five supabase tables), the per-session       *)
(* st.session_state (login fields, cart, the data_cache / last_cache_update*)
(* maps of OptimizedDatabaseManager) and the wall clock are the state.     *)
(* Every method of OptimizedDatabaseManager is an operator that maps the   *)
(* store and the calling session's cache to the new store, the new cache   *)
(* and the returned value; the form handlers of login_page, admin_panel    *)
(* and main_app are actions built from those operators.  A store call that *)
(* raises is the input ok = FALSE of the operator that wraps it.           *)
(*                                                                         *)
(* Amounts are whole currency units (the source uses floats), None is the  *)
(* string "None", rows carry the fields the handlers read or compare.      *)
(***************************************************************************)
EXTENDS Integers, Sequences, FiniteSets, TLC

VARIABLES store, session_state, now, last, scope, fetched_before_write

vars == <<store, session_state, now, last, scope, fetched_before_write>>

None == "None"

(***************************************************************************)
(* Program constants.                                                      *)
(***************************************************************************)
CACHE_TTL == 300

INVOICE_TTL == 60

(***************************************************************************)
(* Bounds of the model.                                                    *)
(***************************************************************************)
MaxRows == 2

MaxDbRows == 1

MaxAmount == 4

(* Items in a cart.                                                        *)
MaxCart == 2

(* Invoices ever inserted where two sellers confirm at once.               *)
MaxInvoices == 2

(* Rows ever inserted into salesmen by the login and admin pages.          *)
MaxSalesmen == 2

(* Rows ever inserted into salesmen, the default admin included, where the *)
(* Manage Salesmen tab is used.                                            *)
MaxStaff == 3

Sessions == {"s1", "s2"}

Tables == {"salesmen", "customers", "invoices", "invoice_items", "products"}

(* time.time() at the start of a run: far from the epoch 0 that           *)
(* _is_cache_valid uses for a missing timestamp.                           *)
StartTime == 4 * CACHE_TTL

(* The clock readings of a run, as seconds after StartTime: an entry is    *)
(* read at the ages 0 and 300 (the default TTL) and, where invoices are    *)
(* read, also at 60 (their TTL) and 240.                                   *)
ClockReadings ==
    IF "invoices" \in scope THEN <<0, INVOICE_TTL, CACHE_TTL>> ELSE <<0, CACHE_TTL>>

(***************************************************************************)
(* Sequence helpers.                                                       *)
(***************************************************************************)
Range(seq) == {seq[i] : i \in 1..Len(seq)}

RECURSIVE Reverse(_)
Reverse(seq) == IF seq = <<>> THEN <<>> ELSE Append(Reverse(Tail(seq)), Head(seq))

RECURSIVE IsPrefix(_, _)
IsPrefix(p, s) ==
    IF p = <<>> THEN TRUE
    ELSE IF s = <<>> THEN FALSE
    ELSE Head(p) = Head(s) /\ IsPrefix(Tail(p), Tail(s))

(***************************************************************************)
(* Cache keys.  _get_cache_key builds the string table_name, followed by   *)
(* "_" and hash(str(sorted(filters.items()))) when filters is non-empty.   *)
(* A key is kept as the pair (table_name, str of the filter value); its    *)
(* characters are spelled out for str.startswith.                          *)
(***************************************************************************)
Chars(name) ==
    CASE name = "salesmen" -> <<"s", "a", "l", "e", "s", "m", "e", "n">>
      [] name = "customers" -> <<"c", "u", "s", "t", "o", "m", "e", "r", "s">>
      [] name = "invoices" -> <<"i", "n", "v", "o", "i", "c", "e", "s">>
      [] name = "invoice_items" ->
            <<"i", "n", "v", "o", "i", "c", "e", "_", "i", "t", "e", "m", "s">>
      [] name = "products" -> <<"p", "r", "o", "d", "u", "c", "t", "s">>

NoFilters == ""

_get_cache_key(table_name, filters) == [table |-> table_name, arg |-> filters]

KeyChars(key) ==
    IF key.arg = NoFilters THEN Chars(key.table)
    ELSE Chars(key.table) \o <<"_", key.arg>>

StartsWith(key, table_name) == IsPrefix(Chars(table_name), KeyChars(key))

(***************************************************************************)
(* The cache of one session: c = [dc |-> data_cache, lu |->                *)
(* last_cache_update, pre |-> ...], two dictionaries (functions whose      *)
(* DOMAIN is the set of keys present) and one history field: pre is the    *)
(* set of keys that were cached when this session completed a write on the *)
(* key's table and have not been fetched since.  No operator reads pre to  *)
(* decide anything; it is only reported by a read.                         *)
(***************************************************************************)
EmptyDict == <<>>

DictSet(d, key, value) == [k \in DOMAIN d \cup {key} |-> IF k = key THEN value ELSE d[k]]

DictDel(d, keys) == [k \in DOMAIN d \ keys |-> d[k]]

_is_cache_valid_le(c, cache_key, ttl, t) ==
    IF cache_key \notin DOMAIN c.dc THEN FALSE
    ELSE (t - (IF cache_key \in DOMAIN c.lu THEN c.lu[cache_key] ELSE 0)) <= ttl

_is_cache_valid(c, cache_key, ttl, t) ==
    IF cache_key \notin DOMAIN c.dc THEN FALSE
    ELSE (t - (IF cache_key \in DOMAIN c.lu THEN c.lu[cache_key] ELSE 0)) < ttl

_cache_data(c, cache_key, data, t) ==
    [dc |-> DictSet(c.dc, cache_key, data), lu |-> DictSet(c.lu, cache_key, t),
     pre |-> c.pre \ {cache_key}]

(* Stores the empty list when fetch_func() raises.                         *)
_get_cached_or_fetch_cache_failure(c, cache_key, ok, fetched, ttl, t) ==
    IF _is_cache_valid(c, cache_key, ttl, t)
    THEN [data |-> c.dc[cache_key], c |-> c, hit |-> TRUE, called |-> FALSE]
    ELSE [data |-> IF ok THEN fetched ELSE <<>>,
          c |-> _cache_data(c, cache_key, IF ok THEN fetched ELSE <<>>, t),
          hit |-> FALSE, called |-> TRUE]

(* fetch_func() either returns fetched (ok) or raises.                     *)
_get_cached_or_fetch(c, cache_key, ok, fetched, ttl, t) ==
    IF _is_cache_valid(c, cache_key, ttl, t)
    THEN [data |-> c.dc[cache_key], c |-> c, hit |-> TRUE, called |-> FALSE]
    ELSE IF ok
         THEN [data |-> fetched, c |-> _cache_data(c, cache_key, fetched, t),
               hit |-> FALSE, called |-> TRUE]
         ELSE [data |-> <<>>, c |-> c, hit |-> FALSE, called |-> TRUE]

invalidate_cache_noop(c, table_name) == c

(* Deletes the key that is the table name and no key with filters.         *)
invalidate_cache_exact(c, table_name) ==
    IF table_name # None
    THEN LET keys_to_remove == {k \in DOMAIN c.dc : KeyChars(k) = Chars(table_name)}
         IN  [dc |-> DictDel(c.dc, keys_to_remove), lu |-> DictDel(c.lu, keys_to_remove),
              pre |-> c.pre]
    ELSE [dc |-> EmptyDict, lu |-> EmptyDict, pre |-> c.pre]

invalidate_cache(c, table_name) ==
    IF table_name # None
    THEN LET keys_to_remove == {k \in DOMAIN c.dc : StartsWith(k, table_name)}
         IN  [dc |-> DictDel(c.dc, keys_to_remove), lu |-> DictDel(c.lu, keys_to_remove),
              pre |-> c.pre]
    ELSE [dc |-> EmptyDict, lu |-> EmptyDict, pre |-> c.pre]

(* get_invoice_items / add_invoice_items delete from data_cache only.      *)
DropItemsData(c) ==
    LET keys_to_remove == {k \in DOMAIN c.dc : StartsWith(k, "invoice_items")}
    IN  [dc |-> DictDel(c.dc, keys_to_remove), lu |-> c.lu, pre |-> c.pre]

(* History only: a write of this session on table_name has completed.      *)
MarkWritten(c, table_name) ==
    [c EXCEPT !.pre = c.pre \cup {k \in DOMAIN c.dc : k.table = table_name}]

(***************************************************************************)
(* The data store: five tables, each the sequence of its rows in insertion *)
(* order, and the serial the store gives the next row of a table.  The     *)
(* source declares no constraint of any table.                             *)
(***************************************************************************)
EmptyStore ==
    [salesmen |-> <<>>, customers |-> <<>>, invoices |-> <<>>, invoice_items |-> <<>>,
     products |-> <<>>, next_id |-> [t \in Tables |-> 1]]

(* Column defaults the store fills in: load_products_from_csv inserts      *)
(* products without the active column and the listings read it.            *)
Defaults(table_name) == IF table_name = "products" THEN [active |-> TRUE] ELSE <<>>

WithId(st, table_name, row) ==
    [f \in DOMAIN row \cup DOMAIN Defaults(table_name) \cup {"id"} |->
        IF f = "id" THEN st.next_id[table_name]
        ELSE IF f \in DOMAIN row THEN row[f] ELSE Defaults(table_name)[f]]

(* supabase.table(t).insert(row): the store numbers the row.               *)
Insert(st, table_name, row) ==
    [st EXCEPT ![table_name] = Append(@, WithId(st, table_name, row)),
               !.next_id[table_name] = @ + 1]

(* insert of a row that brings its own id (customers).                     *)
InsertAsIs(st, table_name, row) == [st EXCEPT ![table_name] = Append(@, row)]

RECURSIVE InsertAll(_, _, _)
InsertAll(st, table_name, rows) ==
    IF rows = <<>> THEN st
    ELSE InsertAll(Insert(st, table_name, Head(rows)), table_name, Tail(rows))

(* update(updates).eq('id', id): the named columns of the matching rows.   *)
Merge(row, updates) ==
    [f \in DOMAIN row |-> IF f \in DOMAIN updates THEN updates[f] ELSE row[f]]

UpdateById(st, table_name, id, updates) ==
    [st EXCEPT ![table_name] =
        [i \in 1..Len(@) |-> IF @[i].id = id THEN Merge(@[i], updates) ELSE @[i]]]

RowsById(st, table_name, id) ==
    LET Match(r) == r.id = id IN SelectSeq(st[table_name], Match)

DeleteById(st, table_name, id) ==
    LET Keep(r) == r.id # id IN [st EXCEPT ![table_name] = SelectSeq(@, Keep)]

DeleteByNumber(st, invoice_number) ==
    LET Keep(r) == r.invoice_number # invoice_number
    IN  [st EXCEPT !.invoices = SelectSeq(@, Keep)]

(***************************************************************************)
(* The fetch functions of the get_* methods.                               *)
(***************************************************************************)
fetch_salesmen(st) == st.salesmen

(* order('created_date', desc=True): newest first.                         *)
fetch_customers(st) == Reverse(st.customers)

(* The select joins customers: each invoice carries the list of the        *)
(* customer rows with its customer_id (one row, or none).                  *)
JoinCustomer(st, inv) ==
    LET cs == RowsById(st, "customers", inv.customer_id)
    IN  [f \in DOMAIN inv \cup {"customers"} |->
            IF f = "customers" THEN (IF cs = <<>> THEN <<>> ELSE <<cs[1]>>) ELSE inv[f]]

fetch_invoices(st, created_by) ==
    LET Mine(r) == r.created_by = created_by
        rows == IF created_by # None THEN SelectSeq(st.invoices, Mine) ELSE st.invoices
    IN  [i \in 1..Len(rows) |-> JoinCustomer(st, rows[i])]

fetch_items(st, invoice_id) ==
    LET Match(r) == r.invoice_id = invoice_id IN SelectSeq(st.invoice_items, Match)

(* order('product'): by name, lower case before upper case of a letter.    *)
NameRank(name) ==
    CASE name = "ink" -> 1
      [] name = "pen" -> 2
      [] name = "Pen" -> 3
      [] OTHER -> 4

RECURSIVE InsertSorted(_, _)
InsertSorted(sorted, row) ==
    IF sorted = <<>> THEN <<row>>
    ELSE IF NameRank(row.product) < NameRank(Head(sorted).product)
         THEN <<row>> \o sorted
         ELSE <<Head(sorted)>> \o InsertSorted(Tail(sorted), row)

RECURSIVE SortByProduct(_)
SortByProduct(rows) ==
    IF rows = <<>> THEN <<>>
    ELSE InsertSorted(SortByProduct(Tail(rows)), Head(rows))

fetch_products(st, active_only) ==
    LET Active(r) == r.active
    IN  SortByProduct(IF active_only THEN SelectSeq(st.products, Active) ELSE st.products)

(***************************************************************************)
(* The methods of OptimizedDatabaseManager.  Each takes the store st, the  *)
(* caller's cache c, the clock t where it reads it, and ok: whether the    *)
(* store call returns (TRUE) or raises (FALSE); each returns the new       *)
(* store, the new cache and res, the method's return value (a row is a     *)
(* one-element list, None the empty list).                                 *)
(***************************************************************************)
BoolStr(b) == IF b THEN "True" ELSE "False"

Out(st, c, res) == [st |-> st, c |-> c, res |-> res]

Read(st, got) == [st |-> st, c |-> got.c, res |-> got.data, hit |-> got.hit, called |-> got.called]

get_salesmen(st, c, use_cache, ok, t) ==
    LET cache_key == _get_cache_key("salesmen", NoFilters)
        c1 == IF ~use_cache THEN invalidate_cache(c, "salesmen") ELSE c
    IN  Read(st, _get_cached_or_fetch(c1, cache_key, ok, fetch_salesmen(st), CACHE_TTL, t))

add_salesman(st, c, salesman_data, ok) ==
    IF ok
    THEN LET st1 == Insert(st, "salesmen", salesman_data)
         IN  Out(st1, invalidate_cache(MarkWritten(c, "salesmen"), "salesmen"),
                 <<st1.salesmen[Len(st1.salesmen)]>>)
    ELSE Out(st, c, <<>>)

update_salesman(st, c, salesman_id, updates, ok) ==
    IF ok
    THEN LET st1 == UpdateById(st, "salesmen", salesman_id, updates)
         IN  Out(st1, invalidate_cache(MarkWritten(c, "salesmen"), "salesmen"),
                 RowsById(st1, "salesmen", salesman_id))
    ELSE Out(st, c, <<>>)

delete_salesman(st, c, salesman_id, ok) ==
    IF ok
    THEN Out(DeleteById(st, "salesmen", salesman_id),
             invalidate_cache(MarkWritten(c, "salesmen"), "salesmen"), TRUE)
    ELSE Out(st, c, FALSE)

get_customers(st, c, use_cache, ok, t) ==
    LET cache_key == _get_cache_key("customers", NoFilters)
        c1 == IF ~use_cache THEN invalidate_cache(c, "customers") ELSE c
    IN  Read(st, _get_cached_or_fetch(c1, cache_key, ok, fetch_customers(st), CACHE_TTL, t))

add_customer(st, c, customer_data, ok) ==
    IF ok
    THEN Out(InsertAsIs(st, "customers", customer_data),
             invalidate_cache(MarkWritten(c, "customers"), "customers"), <<customer_data>>)
    ELSE Out(st, c, <<>>)

get_invoices(st, c, created_by, use_cache, ok, t) ==
    LET cache_key == _get_cache_key("invoices", created_by)
        c1 == IF ~use_cache THEN invalidate_cache(c, "invoices") ELSE c
    IN  Read(st, _get_cached_or_fetch(c1, cache_key, ok, fetch_invoices(st, created_by),
                                      INVOICE_TTL, t))

(* Inserts nothing when the invoice_number is taken.                       *)
add_invoice_unique_number(st, c, invoice_data, ok) ==
    IF ok /\ \A i \in 1..Len(st.invoices) :
                st.invoices[i].invoice_number # invoice_data.invoice_number
    THEN LET st1 == Insert(st, "invoices", invoice_data)
         IN  Out(st1, invalidate_cache(MarkWritten(c, "invoices"), "invoices"),
                 <<st1.invoices[Len(st1.invoices)]>>)
    ELSE Out(st, c, <<>>)

add_invoice(st, c, invoice_data, ok) ==
    IF ok
    THEN LET st1 == Insert(st, "invoices", invoice_data)
         IN  Out(st1, invalidate_cache(MarkWritten(c, "invoices"), "invoices"),
                 <<st1.invoices[Len(st1.invoices)]>>)
    ELSE Out(st, c, <<>>)

delete_invoice(st, c, invoice_number, ok) ==
    IF ok
    THEN Out(DeleteByNumber(st, invoice_number),
             invalidate_cache(MarkWritten(c, "invoices"), "invoices"), TRUE)
    ELSE Out(st, c, FALSE)

get_invoice_items(st, c, invoice_id, use_cache, ok, t) ==
    LET cache_key == _get_cache_key("invoice_items", ToString(invoice_id))
        c1 == IF ~use_cache THEN DropItemsData(c) ELSE c
    IN  Read(st, _get_cached_or_fetch(c1, cache_key, ok, fetch_items(st, invoice_id),
                                      CACHE_TTL, t))

add_invoice_items(st, c, items_data, ok) ==
    IF ok
    THEN LET st1 == InsertAll(st, "invoice_items", items_data)
         IN  Out(st1, DropItemsData(MarkWritten(c, "invoice_items")),
                 SubSeq(st1.invoice_items, Len(st.invoice_items) + 1, Len(st1.invoice_items)))
    ELSE Out(st, c, <<>>)

get_products(st, c, active_only, use_cache, ok, t) ==
    LET cache_key == _get_cache_key("products", BoolStr(active_only))
        c1 == IF ~use_cache THEN invalidate_cache(c, "products") ELSE c
    IN  Read(st, _get_cached_or_fetch(c1, cache_key, ok, fetch_products(st, active_only),
                                      CACHE_TTL, t))

add_product(st, c, product_data, ok) ==
    IF ok
    THEN LET st1 == Insert(st, "products", product_data)
         IN  Out(st1, invalidate_cache(MarkWritten(c, "products"), "products"),
                 <<st1.products[Len(st1.products)]>>)
    ELSE Out(st, c, <<>>)

update_product_cascade(st, c, product_id, updates, ok) ==
    IF ok
    THEN LET st1 == UpdateById(st, "products", product_id, updates)
             names == {r.product : r \in Range(RowsById(st, "products", product_id))}
             st2 == [st1 EXCEPT !.invoice_items =
                        [i \in 1..Len(@) |->
                            IF @[i].product \in names /\ "price" \in DOMAIN updates
                            THEN [@[i] EXCEPT !.price = updates.price] ELSE @[i]]]
         IN  Out(st2, invalidate_cache(MarkWritten(c, "products"), "products"),
                 RowsById(st2, "products", product_id))
    ELSE Out(st, c, <<>>)

update_product(st, c, product_id, updates, ok) ==
    IF ok
    THEN LET st1 == UpdateById(st, "products", product_id, updates)
         IN  Out(st1, invalidate_cache(MarkWritten(c, "products"), "products"),
                 RowsById(st1, "products", product_id))
    ELSE Out(st, c, <<>>)

(* Deletes the row.                                                        *)
delete_product_hard(st, c, product_id, ok) ==
    IF ok
    THEN Out(DeleteById(st, "products", product_id),
             invalidate_cache(MarkWritten(c, "products"), "products"), TRUE)
    ELSE Out(st, c, FALSE)

delete_product_keep_cache(st, c, product_id, ok) ==
    IF ok
    THEN Out(UpdateById(st, "products", product_id, [active |-> FALSE]), c, TRUE)
    ELSE Out(st, c, FALSE)

delete_product(st, c, product_id, ok) ==
    IF ok
    THEN Out(UpdateById(st, "products", product_id, [active |-> FALSE]),
             invalidate_cache(MarkWritten(c, "products"), "products"), TRUE)
    ELSE Out(st, c, FALSE)

bulk_add_products(st, c, products_list, ok) ==
    IF ok
    THEN LET st1 == InsertAll(st, "products", products_list)
         IN  Out(st1, invalidate_cache(MarkWritten(c, "products"), "products"),
                 SubSeq(st1.products, Len(st.products) + 1, Len(st1.products)))
    ELSE Out(st, c, <<>>)

(***************************************************************************)
(* Values the inputs are drawn from.                                       *)
(***************************************************************************)
Usernames == {"admin", "bob", "Bob"}

Passwords == {"admin123", "pw"}

NewUsernames == {"bob"}

(* What is typed into the login form: the default admin's credentials, a   *)
(* salesman's, and a wrong password.                                       *)
Credentials == {<<"admin", "admin123">>, <<"bob", "pw">>, <<"bob", "admin123">>}

CustomerNames == {"ann", "Ann", "cat"}

Phones == {"111", "222"}

(* Typed into the product name field: a name, the name in another case,   *)
(* and the name after a blank.                                             *)
ProductNames == {"pen", "Pen", " pen"}

Prices == 1..2

(* A quantity above 1, so that quantity * price differs from price.       *)
Quantities == {2}

(* hashlib.sha256(password.encode()).hexdigest(): a digest, never the      *)
(* password itself; distinct passwords have distinct digests.              *)
hash_password(password) == "sha256:" \o password

(* str.lower() on the names used.                                          *)
Lower(str) ==
    CASE str = "Bob" -> "bob"
      [] str = "Ann" -> "ann"
      [] str = "Pen" -> "pen"
      [] str = "INV-" -> "inv-"
      [] OTHER -> str

(* str.strip() on the names used.                                          *)
Strip(str) ==
    CASE str = " pen" -> "pen"
      [] OTHER -> str

(***************************************************************************)
(* st.session_state of one session, as init_session_state leaves it.  The  *)
(* keys set on demand (show_admin, confirm_invoice_delete_<n>,             *)
(* editing_<id>) live in the dictionary extra.                             *)
(***************************************************************************)
init_session_state ==
    [authenticated |-> FALSE, current_user |-> None, user_role |-> None,
     cart |-> <<>>, show_payment_popup |-> FALSE,
     data_cache |-> EmptyDict, last_cache_update |-> EmptyDict, extra |-> EmptyDict]

Cache(s) ==
    [dc |-> session_state[s].data_cache, lu |-> session_state[s].last_cache_update,
     pre |-> fetched_before_write[s]]

NoOp == [op |-> "none"]

(* The runs are split by the tables whose methods they call: scope is the  *)
(* set of tables of the run, fixed at its start.                           *)
DbScopes == {{"salesmen"}, {"customers"}, {"products"}, {"invoices", "invoice_items"}}

InitIn(scopes) ==
    /\ store = EmptyStore
    /\ session_state = [s \in Sessions |-> init_session_state]
    /\ now = StartTime
    /\ last = NoOp
    /\ scope \in scopes
    /\ fetched_before_write = [s \in Sessions |-> {}]

Init == InitIn(DbScopes)

(* One cache for all sessions: every session gets the cache of the run.    *)
Commit_shared_cache(s, st, c, ss) ==
    /\ store' = st
    /\ session_state' =
          [x \in Sessions |->
              [(IF x = s THEN ss ELSE session_state[x]) EXCEPT
                  !.data_cache = c.dc, !.last_cache_update = c.lu]]
    /\ fetched_before_write' = [fetched_before_write EXCEPT ![s] = c.pre]

(* The end of a script run of session s: the store as the run left it, the *)
(* session state ss with the cache the run's db calls produced.            *)
Commit(s, st, c, ss) ==
    /\ store' = st
    /\ session_state' =
          [session_state EXCEPT ![s] =
              [ss EXCEPT !.data_cache = c.dc, !.last_cache_update = c.lu]]
    /\ fetched_before_write' = [fetched_before_write EXCEPT ![s] = c.pre]

(* time.time() moves on between script runs.                               *)
Tick ==
    /\ \E i \in 1..(Len(ClockReadings) - 1) :
          /\ now = StartTime + ClockReadings[i]
          /\ now' = StartTime + ClockReadings[i + 1]
    /\ last' = [op |-> "tick"]
    /\ UNCHANGED <<store, session_state, scope, fetched_before_write>>

(***************************************************************************)
(* The methods of OptimizedDatabaseManager called by a session, with any   *)
(* arguments.                                                              *)
(***************************************************************************)
ReadKeys ==
    {_get_cache_key("salesmen", NoFilters), _get_cache_key("customers", NoFilters)}
    \cup {_get_cache_key("invoices", u) : u \in {None, "bob"}}
    \cup {_get_cache_key("invoice_items", ToString(1))}
    \cup {_get_cache_key("products", BoolStr(b)) : b \in BOOLEAN}

(* What a read reports about itself.                                       *)
ReadReport(s, key, use_cache, ok, out) ==
    [op |-> "read", sess |-> s, key |-> key, use_cache |-> use_cache,
     ok |-> out.called /\ ok, called |-> out.called, data |-> out.res,
     age |-> IF key \in DOMAIN Cache(s).dc /\ key \in DOMAIN Cache(s).lu
             THEN now - Cache(s).lu[key] ELSE -1,
     post_write |-> key \in Cache(s).pre,
     stale |-> out.hit /\ key \in Cache(s).pre]

(* The rows the store holds for a cache key.                               *)
FetchFor(st, key) ==
    CASE key.table = "salesmen" -> fetch_salesmen(st)
      [] key.table = "customers" -> fetch_customers(st)
      [] key.table = "invoices" -> fetch_invoices(st, key.arg)
      [] key.table = "invoice_items" ->
            fetch_items(st, CHOOSE i \in 1..(MaxRows + MaxDbRows + 1) : ToString(i) = key.arg)
      [] key.table = "products" -> fetch_products(st, key.arg = "True")

DbRead(s, key, use_cache, ok) ==
    LET st == store
        c == Cache(s)
        out == CASE key.table = "salesmen" -> get_salesmen(st, c, use_cache, ok, now)
                 [] key.table = "customers" -> get_customers(st, c, use_cache, ok, now)
                 [] key.table = "invoices" -> get_invoices(st, c, key.arg, use_cache, ok, now)
                 [] key.table = "invoice_items" ->
                        get_invoice_items(st, c, CHOOSE i \in 1..(MaxRows + 1) : ToString(i) = key.arg,
                                          use_cache, ok, now)
                 [] key.table = "products" ->
                        get_products(st, c, key.arg = "True", use_cache, ok, now)
    IN  /\ key.table \in scope
        /\ Commit(s, out.st, out.c, session_state[s])
        /\ last' = ReadReport(s, key, use_cache, ok, out)
        /\ UNCHANGED <<now, scope>>

(* What a write reports: cached is the set of keys of the table that the   *)
(* session had in data_cache when the method was called, res the value     *)
(* the method returned.                                                    *)
WriteReport(s, table_name, method, ok, res) ==
    [op |-> "write", sess |-> s, table |-> table_name, method |-> method, ok |-> ok,
     cached |-> {k \in DOMAIN Cache(s).dc : k.table = table_name}, res |-> res]

DbWriteOut(s, out, table_name, method, ok) ==
    /\ table_name \in scope
    /\ Commit(s, out.st, out.c, session_state[s])
    /\ last' = WriteReport(s, table_name, method, ok, out.res)
    /\ UNCHANGED <<now, scope>>

DbAddSalesman(s, ok) ==
    /\ store.next_id.salesmen <= MaxDbRows
    /\ \E u \in {"bob"} :
          DbWriteOut(s, add_salesman(store, Cache(s),
                        [username |-> u, password |-> hash_password("pw"),
                         role |-> "salesman", active |-> TRUE], ok),
                     "salesmen", "add_salesman", ok)

DbUpdateSalesman(s, ok) ==
    \E r \in Range(store.salesmen) :
        DbWriteOut(s, update_salesman(store, Cache(s), r.id, [active |-> ~r.active], ok),
                   "salesmen", "update_salesman", ok)

DbDeleteSalesman(s, ok) ==
    \E r \in Range(store.salesmen) :
        DbWriteOut(s, delete_salesman(store, Cache(s), r.id, ok),
                   "salesmen", "delete_salesman", ok)

DbAddCustomer(s, ok) ==
    /\ Len(store.customers) < MaxDbRows
    /\ \E n \in {"ann"} :
          DbWriteOut(s, add_customer(store, Cache(s),
                        [id |-> Len(store.customers) + 1, name |-> n, phone |-> "111",
                         created_by |-> "bob"], ok),
                     "customers", "add_customer", ok)

DbInvoice(u, total, paid) ==
    [invoice_number |-> "INV-" \o ToString(now), customer_id |-> 1,
     total_amount |-> total, paid_amount |-> paid, unpaid_amount |-> total - paid,
     status |-> "status", created_by |-> u, salesman |-> u]

DbAddInvoice(s, ok) ==
    /\ store.next_id.invoices <= MaxDbRows
    /\ \E u \in {"bob"} :
          DbWriteOut(s, add_invoice(store, Cache(s), DbInvoice(u, 2, 2), ok),
                     "invoices", "add_invoice", ok)

DbDeleteInvoice(s, ok) ==
    \E r \in Range(store.invoices) :
        DbWriteOut(s, delete_invoice(store, Cache(s), r.invoice_number, ok),
                   "invoices", "delete_invoice", ok)

DbAddInvoiceItems(s, ok) ==
    /\ store.next_id.invoice_items <= MaxDbRows
    /\ \E i \in {1} :
          DbWriteOut(s, add_invoice_items(store, Cache(s),
                        <<[invoice_id |-> i, product |-> "pen", price |-> 1, quantity |-> 1]>>,
                        ok),
                     "invoice_items", "add_invoice_items", ok)

DbAddProduct(s, ok) ==
    /\ store.next_id.products <= MaxDbRows
    /\ \E n \in {"pen"} :
          DbWriteOut(s, add_product(store, Cache(s),
                        [product |-> n, price |-> 1, active |-> TRUE], ok),
                     "products", "add_product", ok)

DbUpdateProduct(s, ok) ==
    \E r \in Range(store.products) : \E price \in Prices :
        /\ price # r.price
        /\ DbWriteOut(s, update_product(store, Cache(s), r.id, [price |-> price], ok),
                      "products", "update_product", ok)

DbDeleteProduct(s, ok) ==
    \E r \in Range(store.products) :
        DbWriteOut(s, delete_product(store, Cache(s), r.id, ok),
                   "products", "delete_product", ok)

DbBulkAddProducts(s, ok) ==
    /\ store.next_id.products = 1
    /\ DbWriteOut(s, bulk_add_products(store, Cache(s),
                     <<[product |-> "pen", price |-> 1], [product |-> "ink", price |-> 2]>>, ok),
                  "products", "bulk_add_products", ok)

(* db.invalidate_cache() of the admin panel's Refresh Data button.         *)
DbInvalidateAll(s) ==
    /\ scope \in DbScopes
    /\ Commit(s, store, invalidate_cache(Cache(s), None), session_state[s])
    /\ last' = [op |-> "invalidate_all", sess |-> s]
    /\ UNCHANGED <<now, scope>>

DbWrite(s, ok) ==
    \/ DbAddSalesman(s, ok)
    \/ DbUpdateSalesman(s, ok)
    \/ DbDeleteSalesman(s, ok)
    \/ DbAddCustomer(s, ok)
    \/ DbAddInvoice(s, ok)
    \/ DbDeleteInvoice(s, ok)
    \/ DbAddInvoiceItems(s, ok)
    \/ DbAddProduct(s, ok)
    \/ DbUpdateProduct(s, ok)
    \/ DbDeleteProduct(s, ok)
    \/ DbBulkAddProducts(s, ok)

NextDb ==
    \/ Tick
    \/ \E key \in ReadKeys, use_cache \in BOOLEAN, ok \in BOOLEAN : DbRead("s1", key, use_cache, ok)
    \/ \E ok \in BOOLEAN : DbWrite("s1", ok)
    \/ DbInvalidateAll("s1")

Spec == Init /\ [][NextDb]_vars

(***************************************************************************)
(* Payment status and save_invoice_record.  The three status strings of    *)
(* the source are Arabic: "paid" (madfua), "not paid" (ghayr madfua) and   *)
(* "paid partially" (madfua juziyan); each is kept as the list of its      *)
(* words, so that the second and third contain the first as the source     *)
(* strings do.                                                             *)
(***************************************************************************)
StatusPaid == <<"madfua">>

StatusPartial == <<"madfua", " ", "juziyan">>

StatusUnpaid == <<"ghayr", " ", "madfua">>

determine_payment_status_swapped(total_amount, paid_amount) ==
    IF paid_amount >= total_amount THEN StatusPaid
    ELSE IF paid_amount > 0 THEN StatusUnpaid
    ELSE StatusPartial

determine_payment_status_gt(total_amount, paid_amount) ==
    IF paid_amount > total_amount THEN StatusPaid
    ELSE IF paid_amount > 0 THEN StatusPartial
    ELSE StatusUnpaid

determine_payment_status_ge0(total_amount, paid_amount) ==
    IF paid_amount >= total_amount THEN StatusPaid
    ELSE IF paid_amount >= 0 THEN StatusPartial
    ELSE StatusUnpaid

determine_payment_status(total_amount, paid_amount) ==
    IF paid_amount >= total_amount THEN StatusPaid
    ELSE IF paid_amount > 0 THEN StatusPartial
    ELSE StatusUnpaid

Max(a, b) == IF a >= b THEN a ELSE b

(* The item rows in the reverse of the cart's order.                       *)
ItemsOf_reversed(invoice_id, cart_items) ==
    [i \in 1..Len(cart_items) |->
        [invoice_id |-> invoice_id, product |-> cart_items[Len(cart_items) + 1 - i].product,
         price |-> cart_items[Len(cart_items) + 1 - i].price,
         quantity |-> cart_items[Len(cart_items) + 1 - i].quantity]]

ItemsOf(invoice_id, cart_items) ==
    [i \in 1..Len(cart_items) |->
        [invoice_id |-> invoice_id, product |-> cart_items[i].product,
         price |-> cart_items[i].price, quantity |-> cart_items[i].quantity]]

(* Sends the items again when their insert has failed.                     *)
save_invoice_record_retry(st, c, customer, cart_items, invoice_number, total_amount, paid_given, paid, current_user, ok1, ok2) ==
    LET paid_amount == IF paid_given THEN paid ELSE total_amount
        invoice_data ==
            [invoice_number |-> invoice_number, customer_id |-> customer.id,
             total_amount |-> total_amount, paid_amount |-> paid_amount,
             unpaid_amount |-> Max(0, total_amount - paid_amount),
             status |-> determine_payment_status(total_amount, paid_amount),
             created_by |-> current_user, salesman |-> current_user]
        a == add_invoice(st, c, invoice_data, ok1)
    IN  IF a.res # <<>>
        THEN LET b == add_invoice_items(a.st, a.c, ItemsOf(a.res[1].id, cart_items), ok2)
                 b2 == IF b.res = <<>>
                       THEN add_invoice_items(b.st, b.c, ItemsOf(a.res[1].id, cart_items), TRUE)
                       ELSE b
             IN  Out(b2.st, b2.c, a.res)
        ELSE Out(a.st, a.c, a.res)

(* Stores total_amount - paid_amount as it is.                             *)
save_invoice_record_nomax(st, c, customer, cart_items, invoice_number, total_amount, paid_given, paid, current_user, ok1, ok2) ==
    LET paid_amount == IF paid_given THEN paid ELSE total_amount
        invoice_data ==
            [invoice_number |-> invoice_number, customer_id |-> customer.id,
             total_amount |-> total_amount, paid_amount |-> paid_amount,
             unpaid_amount |-> total_amount - paid_amount,
             status |-> determine_payment_status(total_amount, paid_amount),
             created_by |-> current_user, salesman |-> current_user]
        a == add_invoice(st, c, invoice_data, ok1)
    IN  IF a.res # <<>>
        THEN LET b == add_invoice_items(a.st, a.c, ItemsOf(a.res[1].id, cart_items), ok2)
             IN  Out(b.st, b.c, a.res)
        ELSE Out(a.st, a.c, a.res)

(* paid_given = FALSE is the call with paid_amount=None.  ok1 and ok2: the *)
(* inserts of add_invoice and of add_invoice_items return or raise.  res   *)
(* is invoice_record.                                                      *)
save_invoice_record(st, c, customer, cart_items, invoice_number, total_amount, paid_given, paid, current_user, ok1, ok2) ==
    LET paid_amount == IF paid_given THEN paid ELSE total_amount
        unpaid_amount == Max(0, total_amount - paid_amount)
        status == determine_payment_status(total_amount, paid_amount)
        invoice_data ==
            [invoice_number |-> invoice_number, customer_id |-> customer.id,
             total_amount |-> total_amount, paid_amount |-> paid_amount,
             unpaid_amount |-> unpaid_amount, status |-> status,
             created_by |-> current_user, salesman |-> current_user]
        a == add_invoice(st, c, invoice_data, ok1)
    IN  IF a.res # <<>>
        THEN LET b == add_invoice_items(a.st, a.c, ItemsOf(a.res[1].id, cart_items), ok2)
             IN  Out(b.st, b.c, a.res)
        ELSE Out(a.st, a.c, a.res)

(***************************************************************************)
(* save_invoice_record and determine_payment_status on any amounts: the    *)
(* run starts with the arguments of one call and makes it.                 *)
(***************************************************************************)
Amounts == (0 - MaxAmount)..MaxAmount

PayArgs ==
    {[op |-> "args", total |-> t, paid_given |-> g, paid |-> p] :
        t \in Amounts, g \in BOOLEAN, p \in Amounts}

InitPay ==
    /\ store = EmptyStore
    /\ session_state = [s \in Sessions |-> init_session_state]
    /\ now = StartTime
    /\ last \in {a \in PayArgs : a.paid_given \/ a.paid = 0}
    /\ scope = {"invoices", "invoice_items"}
    /\ fetched_before_write = [s \in Sessions |-> {}]

PaySave(s) ==
    /\ last.op = "args"
    /\ LET out == save_invoice_record(store, Cache(s), [id |-> 1],
                     <<[product |-> "pen", price |-> 1, quantity |-> 1]>>,
                     "INV-" \o ToString(now), last.total, last.paid_given, last.paid,
                     session_state[s].current_user, TRUE, TRUE)
           paid == IF last.paid_given THEN last.paid ELSE last.total
       IN  /\ Commit(s, out.st, out.c, session_state[s])
           /\ last' = [op |-> "saved", total |-> last.total, paid |-> paid,
                       status |-> determine_payment_status(last.total, paid),
                       row |-> out.res[1]]
    /\ UNCHANGED <<now, scope>>

(* After the call, the session goes on with the operations of the         *)
(* application on invoices: the listings of the Invoice History tab and    *)
(* its delete button's db.delete_invoice.                                  *)
NextPay ==
    \/ PaySave("s1")
    \/ last.op # "args" /\ Tick
    \/ \E key \in ReadKeys, ok \in BOOLEAN : last.op # "args" /\ DbRead("s1", key, TRUE, ok)
    \/ \E ok \in BOOLEAN : last.op # "args" /\ DbDeleteInvoice("s1", ok)

SpecPay == InitPay /\ [][NextPay]_vars

(***************************************************************************)
(* Script runs of the application.  A run of session s starts from the     *)
(* store and the session's cache, makes its db calls in script order and   *)
(* ends with Commit.  A run reads only the tables of the run's scope.  The *)
(* run that st.rerun() starts after a handler is the next Render action of *)
(* the session.                                                            *)
(***************************************************************************)
default_admin ==
    [username |-> "admin", password |-> hash_password("admin123"), role |-> "admin",
     active |-> TRUE]

(* res: the rows inserted (none, or the default admin); fetched, added:    *)
(* whether the select and the insert were sent to the store.               *)
initialize_default_admin(st, c, ok1, ok2, t) ==
    LET g == get_salesmen(st, c, TRUE, ok1, t)
    IN  IF g.res = <<>>
        THEN LET a == add_salesman(g.st, g.c, default_admin, ok2)
             IN  [st |-> a.st, c |-> a.c, res |-> a.res, fetched |-> g.called, added |-> TRUE]
        ELSE [st |-> g.st, c |-> g.c, res |-> <<>>, fetched |-> g.called, added |-> FALSE]

(* Only a request that is sent to the store can fail.                      *)
Sent(ok, called) == ok \/ called

find_user_any(salesmen, username, hashed_password) ==
    LET Match(r) == r.username = username /\ r.password = hashed_password
    IN  SelectSeq(salesmen, Match)

(* next((s for s in salesmen if ...), None): the matching rows, the first  *)
(* of which is user.                                                       *)
find_user(salesmen, username, hashed_password) ==
    LET Match(r) == r.username = username /\ r.password = hashed_password /\ r.active
    IN  SelectSeq(salesmen, Match)

Get(ss, key, default) == IF key \in DOMAIN ss.extra THEN ss.extra[key] ELSE default

ShowsAdminPanel(ss) == ss.user_role = "admin" /\ Get(ss, "show_admin", FALSE)

(* main_app, header: db.get_salesmen() when current_user is set.           *)
HeaderRead(st, c, ss, ok, t) ==
    IF ss.current_user # None /\ "salesmen" \in scope
    THEN get_salesmen(st, c, TRUE, ok, t)
    ELSE [st |-> st, c |-> c, res |-> <<>>, called |-> FALSE]

(* login_page without a submit: the bootstrap only.                        *)
LoginRender(s, ok1, ok2) ==
    /\ ~session_state[s].authenticated
    /\ LET b == initialize_default_admin(store, Cache(s), ok1, ok2, now)
       IN  /\ Sent(ok1, b.fetched) /\ Sent(ok2, b.added)
           /\ b.res # <<>> => store.next_id.salesmen <= MaxSalesmen
           /\ Commit(s, b.st, b.c, session_state[s])
           /\ last' = [op |-> "login_render", sess |-> s, inserted |-> b.res # <<>>,
                       table_was_empty |-> store.salesmen = <<>>]
    /\ UNCHANGED <<now, scope>>

(* login_page with the form submitted.                                     *)
LoginSubmit(s, username, password, ok1, ok2, ok3) ==
    /\ ~session_state[s].authenticated
    /\ LET b == initialize_default_admin(store, Cache(s), ok1, ok2, now)
           hashed_password == hash_password(password)
           g == get_salesmen(b.st, b.c, TRUE, ok3, now)
           user == find_user(g.res, username, hashed_password)
           ss == session_state[s]
       IN  /\ Sent(ok1, b.fetched) /\ Sent(ok2, b.added) /\ Sent(ok3, g.called)
           /\ b.res # <<>> => store.next_id.salesmen <= MaxSalesmen
           /\ Commit(s, g.st, g.c,
                     IF user # <<>>
                     THEN [ss EXCEPT !.authenticated = TRUE,
                                     !.current_user = user[1].username,
                                     !.user_role = user[1].role]
                     ELSE ss)
           /\ last' = [op |-> "login", sess |-> s, username |-> username,
                       password |-> password, salesmen |-> g.res,
                       success |-> user # <<>>, inserted |-> b.res # <<>>,
                       table_was_empty |-> store.salesmen = <<>>,
                       before |-> <<ss.authenticated, ss.current_user, ss.user_role>>]
    /\ UNCHANGED <<now, scope>>

(* The list the page shows below the header, for the table of the run's   *)
(* scope: admin_panel lists the salesmen and all products, the tabs list   *)
(* the customers and the active products.                                  *)
BodyRead(st, c, ss, ok, t) ==
    IF ShowsAdminPanel(ss) /\ "salesmen" \in scope THEN get_salesmen(st, c, TRUE, ok, t)
    ELSE IF ShowsAdminPanel(ss) /\ "products" \in scope
         THEN get_products(st, c, FALSE, TRUE, ok, t)
    ELSE IF ~ShowsAdminPanel(ss) /\ "customers" \in scope
         THEN get_customers(st, c, TRUE, ok, t)
    ELSE IF ~ShowsAdminPanel(ss) /\ "products" \in scope
         THEN get_products(st, c, TRUE, TRUE, ok, t)
    ELSE [st |-> st, c |-> c, res |-> <<>>, called |-> FALSE]

(* A run of main_app without an event: the reads of the page.              *)
MainRender(s, ok1, ok2) ==
    /\ session_state[s].authenticated
    /\ LET ss == session_state[s]
           h == HeaderRead(store, Cache(s), ss, ok1, now)
           g == BodyRead(h.st, h.c, ss, ok2, now)
       IN  /\ Sent(ok1, h.called) /\ Sent(ok2, g.called)
           /\ Commit(s, g.st, g.c, ss)
           /\ last' = [op |-> "render"]
    /\ UNCHANGED <<now, scope>>

(* The header button without the role test.                                *)
ToggleAdminPanel_any_role(s, ok1) ==
    /\ session_state[s].authenticated
    /\ LET ss == session_state[s]
           h == HeaderRead(store, Cache(s), ss, ok1, now)
       IN  /\ Sent(ok1, h.called)
           /\ Commit(s, h.st, h.c,
                     [ss EXCEPT !.extra = DictSet(@, "show_admin", ~Get(ss, "show_admin", FALSE))])
           /\ last' = [op |-> "toggle_admin_panel"]
    /\ UNCHANGED <<now, scope>>

(* The Admin Panel button of the header.                                   *)
ToggleAdminPanel(s, ok1) ==
    /\ session_state[s].authenticated
    /\ session_state[s].user_role = "admin"
    /\ LET ss == session_state[s]
           h == HeaderRead(store, Cache(s), ss, ok1, now)
       IN  /\ Sent(ok1, h.called)
           /\ Commit(s, h.st, h.c,
                     [ss EXCEPT !.extra = DictSet(@, "show_admin", ~Get(ss, "show_admin", FALSE))])
           /\ last' = [op |-> "toggle_admin_panel"]
    /\ UNCHANGED <<now, scope>>

(* admin_panel, the Refresh Data button: db.invalidate_cache().            *)
RefreshData(s) ==
    /\ session_state[s].authenticated
    /\ ShowsAdminPanel(session_state[s])
    /\ Commit(s, store, invalidate_cache(Cache(s), None), session_state[s])
    /\ last' = [op |-> "refresh_data"]
    /\ UNCHANGED <<now, scope>>

(* Invoice History tab: the created_by that db.get_invoices is called      *)
(* with, None for an admin (all invoices).                                 *)
history_created_by(ss) == IF ss.user_role = "admin" THEN None ELSE ss.current_user

(* What a logout reports about the session state it found: whether the    *)
(* cart had entries, the keys set on demand, the keys of data_cache.       *)
LogoutReport(s) ==
    [op |-> "logout", sess |-> s,
     had |-> [cart |-> session_state[s].cart # <<>>,
              extra |-> DOMAIN session_state[s].extra,
              cached |-> DOMAIN session_state[s].data_cache]]

(* Resets the three login fields and keeps the other keys.                 *)
Logout_login_fields_only(s) ==
    /\ session_state[s].authenticated
    /\ session_state' = [session_state EXCEPT ![s] =
                            [@ EXCEPT !.authenticated = FALSE, !.current_user = None,
                                      !.user_role = None]]
    /\ fetched_before_write' = [fetched_before_write EXCEPT ![s] = {}]
    /\ last' = LogoutReport(s)
    /\ UNCHANGED <<store, now, scope>>

(* The Logout button: every key deleted, then init_session_state().        *)
Logout(s) ==
    /\ session_state[s].authenticated
    /\ session_state' = [session_state EXCEPT ![s] = init_session_state]
    /\ fetched_before_write' = [fetched_before_write EXCEPT ![s] = {}]
    /\ last' = LogoutReport(s)
    /\ UNCHANGED <<store, now, scope>>

(* admin_panel, add_salesman_form submitted with all fields filled.  The   *)
(* header's db.get_salesmen() of the same run reads the same key at the     *)
(* same time, so the list the panel gets is the list of one call whose      *)
(* fetch succeeds when either fetch does: ok2 stands for both.              *)
AddSalesmanForm(s, new_username, new_password, new_role, ok2, ok3) ==
    /\ session_state[s].authenticated
    /\ ShowsAdminPanel(session_state[s])
    /\ LET ss == session_state[s]
           g == get_salesmen(store, Cache(s), TRUE, ok2, now)
           Same(r) == r.username = new_username
           existing_user == SelectSeq(g.res, Same)
           new_salesman == [username |-> new_username,
                            password |-> hash_password(new_password),
                            role |-> new_role, active |-> TRUE]
           a == IF existing_user # <<>> THEN Out(g.st, g.c, <<>>)
                ELSE add_salesman(g.st, g.c, new_salesman, ok3)
       IN  /\ Sent(ok2, g.called) /\ Sent(ok3, existing_user = <<>>)
           /\ Commit(s, a.st, a.c, ss)
           /\ last' = [op |-> "add_salesman_form", username |-> new_username,
                       salesmen |-> g.res, inserted |-> a.res # <<>>]
    /\ UNCHANGED <<now, scope>>

(* The Activate / Deactivate button next to every listed salesman.         *)
ToggleSalesman_any_user(s, id, ok2, ok3) ==
    /\ session_state[s].authenticated
    /\ ShowsAdminPanel(session_state[s])
    /\ LET ss == session_state[s]
           g == get_salesmen(store, Cache(s), TRUE, ok2, now)
       IN  \E i \in 1..Len(g.res) :
              /\ Sent(ok2, g.called)
              /\ g.res[i].id = id
              /\ LET u == update_salesman(g.st, g.c, id, [active |-> ~g.res[i].active], ok3)
                 IN  /\ Commit(s, u.st, u.c, ss)
                     /\ last' = [op |-> "toggle_salesman"]
    /\ UNCHANGED <<now, scope>>

(* admin_panel, the Activate / Deactivate button of a listed salesman.     *)
ToggleSalesman(s, id, ok2, ok3) ==
    /\ session_state[s].authenticated
    /\ ShowsAdminPanel(session_state[s])
    /\ LET ss == session_state[s]
           g == get_salesmen(store, Cache(s), TRUE, ok2, now)
       IN  \E i \in 1..Len(g.res) :
              /\ Sent(ok2, g.called)
              /\ g.res[i].id = id
              /\ g.res[i].username # "admin"
              /\ LET u == update_salesman(g.st, g.c, id, [active |-> ~g.res[i].active], ok3)
                 IN  /\ Commit(s, u.st, u.c, ss)
                     /\ last' = [op |-> "toggle_salesman"]
    /\ UNCHANGED <<now, scope>>

(* admin_panel, the delete button of a listed salesman.                    *)
DeleteSalesman(s, id, ok2, ok3) ==
    /\ session_state[s].authenticated
    /\ ShowsAdminPanel(session_state[s])
    /\ LET ss == session_state[s]
           g == get_salesmen(store, Cache(s), TRUE, ok2, now)
       IN  \E i \in 1..Len(g.res) :
              /\ Sent(ok2, g.called)
              /\ g.res[i].id = id
              /\ g.res[i].username # "admin"
              /\ LET d == delete_salesman(g.st, g.c, id, ok3)
                 IN  /\ Commit(s, d.st, d.c, ss)
                     /\ last' = [op |-> "delete_salesman"]
    /\ UNCHANGED <<now, scope>>

(* The session state after a login of user.                                *)
LoggedIn(user) ==
    [init_session_state EXCEPT !.authenticated = TRUE, !.current_user = user.username,
                               !.user_role = user.role]

InitAuth == InitIn({{"salesmen"}})

(* The browser in which the admin panel is opened; every session logs in   *)
(* and out.                                                                *)
AdminSessions == {"s1"}

NextAuth ==
    \/ Tick
    \/ \E s \in Sessions, ok1, ok2 \in BOOLEAN : LoginRender(s, ok1, ok2)
    \/ \E s \in Sessions, cr \in Credentials, ok1, ok2, ok3 \in BOOLEAN :
          LoginSubmit(s, cr[1], cr[2], ok1, ok2, ok3)
    \/ \E s \in Sessions, ok1, ok2 \in BOOLEAN : MainRender(s, ok1, ok2)
    \/ \E s \in AdminSessions, ok1 \in BOOLEAN : ToggleAdminPanel(s, ok1)
    \/ \E s \in Sessions : Logout(s)
    \/ \E s \in AdminSessions, u \in NewUsernames, r \in {"salesman"}, ok2, ok3 \in BOOLEAN :
          store.next_id.salesmen <= MaxSalesmen /\ AddSalesmanForm(s, u, "pw", r, ok2, ok3)
    \/ \E s \in AdminSessions, id \in 1..MaxSalesmen, ok2, ok3 \in BOOLEAN :
          ToggleSalesman(s, id, ok2, ok3)
    \/ \E s \in AdminSessions, id \in 1..MaxSalesmen, ok2, ok3 \in BOOLEAN :
          DeleteSalesman(s, id, ok2, ok3)

SpecAuth == InitAuth /\ [][NextAuth]_vars

(***************************************************************************)
(* The Manage Salesmen tab.  The runs start with the default admin in the  *)
(* store and logged in, the admin panel open, in every session.            *)
(***************************************************************************)
InitStaff ==
    /\ store = Insert(EmptyStore, "salesmen", default_admin)
    /\ session_state = [s \in Sessions |->
                           [LoggedIn(default_admin) EXCEPT
                               !.extra = DictSet(EmptyDict, "show_admin", TRUE)]]
    /\ now = StartTime
    /\ last = NoOp
    /\ scope = {"salesmen"}
    /\ fetched_before_write = [s \in Sessions |-> {}]

(* What is typed into the username field: a name, and the same name in     *)
(* another case.                                                           *)
StaffUsernames == {"bob", "Bob"}

NextStaff ==
    \/ Tick
    \/ \E s \in Sessions, ok1, ok2 \in BOOLEAN : MainRender(s, ok1, ok2)
    \/ \E s \in Sessions, u \in StaffUsernames, ok2, ok3 \in BOOLEAN :
          store.next_id.salesmen <= MaxStaff /\ AddSalesmanForm(s, u, "pw", "salesman", ok2, ok3)
    \/ \E s \in Sessions, id \in 1..MaxStaff, ok2, ok3 \in BOOLEAN :
          DeleteSalesman(s, id, ok2, ok3)

SpecStaff == InitStaff /\ [][NextStaff]_vars

(***************************************************************************)
(* The Add Customer tab.  The runs start with the default admin logged in  *)
(* in every session.                                                       *)
(***************************************************************************)
InitCust ==
    /\ store = Insert(EmptyStore, "salesmen", default_admin)
    /\ session_state = [s \in Sessions |-> LoggedIn(default_admin)]
    /\ now = StartTime
    /\ last = NoOp
    /\ scope = {"customers"}
    /\ fetched_before_write = [s \in Sessions |-> {}]

existing_customer_by_name(customers, name, phone) ==
    LET Same(c) == Lower(c.name) = Lower(name)
    IN  SelectSeq(customers, Same)

(* next((c for c in customers if ...), None): the rows that match.         *)
existing_customer(customers, name, phone) ==
    LET Same(c) == Lower(c.name) = Lower(name) \/ c.phone = phone
    IN  SelectSeq(customers, Same)

MaxOf(S) == CHOOSE m \in S : \A n \in S : n <= m

(* customer_form submitted with a name and a phone.  ok1, ok2: the select  *)
(* and the insert; ok3: the select of the list below the form, in the run  *)
(* that does not end with st.rerun().                                      *)
CustomerForm(s, name, phone, ok1, ok2, ok3) ==
    /\ session_state[s].authenticated
    /\ ~ShowsAdminPanel(session_state[s])
    /\ Len(store.customers) < MaxRows
    /\ LET ss == session_state[s]
           g == get_customers(store, Cache(s), TRUE, ok1, now)
           customers == g.res
           existing == existing_customer(customers, name, phone)
           customer_ids == IF customers # <<>> THEN {c.id : c \in Range(customers)} ELSE {0}
           next_id == MaxOf(customer_ids) + 1
           customer == [id |-> next_id, name |-> name, phone |-> phone,
                        created_by |-> ss.current_user]
           a == IF existing # <<>> THEN Out(g.st, g.c, <<>>)
                ELSE add_customer(g.st, g.c, customer, ok2)
           r == IF a.res # <<>> THEN [st |-> a.st, c |-> a.c, res |-> <<>>, called |-> FALSE]
                ELSE get_customers(a.st, a.c, TRUE, ok3, now)
       IN  /\ Sent(ok1, g.called) /\ Sent(ok2, existing = <<>>) /\ Sent(ok3, r.called)
           /\ Commit(s, r.st, r.c, ss)
           /\ last' = [op |-> "customer_form", sess |-> s, name |-> name, phone |-> phone,
                       customers |-> customers, inserted |-> a.res # <<>>,
                       before |-> store.customers]
    /\ UNCHANGED <<now, scope>>

(* What is typed into the form: a customer, the same name in another case  *)
(* with another phone, and another name with the first phone.              *)
NewCustomers == {<<"ann", "111">>, <<"Ann", "222">>, <<"cat", "111">>}

NextCust ==
    \/ Tick
    \/ \E s \in Sessions, ok1, ok2 \in BOOLEAN : MainRender(s, ok1, ok2)
    \/ \E s \in Sessions, nc \in NewCustomers, ok1, ok2, ok3 \in BOOLEAN :
          CustomerForm(s, nc[1], nc[2], ok1, ok2, ok3)

SpecCust == InitCust /\ [][NextCust]_vars

(***************************************************************************)
(* The Create Invoice tab and the product list of the admin panel.  The    *)
(* runs start with a customer and the products registered, the default     *)
(* admin logged in in one session and a salesman in the other.  The list   *)
(* of customers, which no operation shrinks, is taken from the store.      *)
(***************************************************************************)
bob == [username |-> "bob", password |-> hash_password("pw"), role |-> "salesman",
        active |-> TRUE]

(* The products registered (load_products_from_csv rows), in id order.     *)
Catalogue == <<[product |-> "pen", price |-> 1], [product |-> "ink", price |-> 1]>>

StockedStore(products_list) ==
    LET st1 == InsertAll(EmptyStore, "salesmen", <<default_admin, bob>>)
        st2 == InsertAsIs(st1, "customers",
                          [id |-> 1, name |-> "ann", phone |-> "111", created_by |-> "admin"])
    IN  InsertAll(st2, "products", products_list)

(* Where invoices are created, the first product is on sale.               *)
OnSale == SubSeq(Catalogue, 1, 1)

ProductIds == 1..Len(OnSale)

(* The admin has the admin panel open, the salesman the tabs.              *)
InitSales ==
    /\ store = StockedStore(OnSale)
    /\ session_state = [s \in Sessions |->
                           IF s \in AdminSessions
                           THEN [LoggedIn(default_admin) EXCEPT
                                    !.extra = DictSet(EmptyDict, "show_admin", TRUE)]
                           ELSE LoggedIn(bob)]
    /\ now = StartTime
    /\ last = NoOp
    /\ scope = {"products"}
    /\ fetched_before_write = [s \in Sessions |-> {}]

(* generate_whatsapp_invoice_text: the amount it returns.                  *)
RECURSIVE total_amount(_)
total_amount(cart_items) ==
    IF cart_items = <<>> THEN 0
    ELSE Head(cart_items).quantity * Head(cart_items).price + total_amount(Tail(cart_items))

RemoveAt(seq, i) == SubSeq(seq, 1, i - 1) \o SubSeq(seq, i + 1, Len(seq))

(* The Create Invoice tab shows the selectors and the cart when            *)
(* db.get_products() and db.get_customers() are not empty.                 *)
ShowsCart(ss, products) ==
    /\ ss.authenticated
    /\ ~ShowsAdminPanel(ss)
    /\ store.customers # <<>>
    /\ products # <<>>

AddToCart(s, idx, quantity, ok1) ==
    LET ss == session_state[s]
        p == get_products(store, Cache(s), TRUE, TRUE, ok1, now)
    IN  /\ Len(ss.cart) < MaxCart
        /\ ShowsCart(ss, p.res)
        /\ Sent(ok1, p.called)
        /\ idx \in 1..Len(p.res)
        /\ LET selected_product_data == p.res[idx]
               cart_item == [product |-> selected_product_data.product,
                             price |-> selected_product_data.price, quantity |-> quantity]
           IN  Commit(s, p.st, p.c, [ss EXCEPT !.cart = Append(@, cart_item)])
        /\ last' = [op |-> "cart"]
        /\ UNCHANGED <<now, scope>>

RemoveFromCart(s, idx, ok1) ==
    LET ss == session_state[s]
        p == get_products(store, Cache(s), TRUE, TRUE, ok1, now)
    IN  /\ idx \in 1..Len(ss.cart)
        /\ ShowsCart(ss, p.res)
        /\ Sent(ok1, p.called)
        /\ Commit(s, p.st, p.c, [ss EXCEPT !.cart = RemoveAt(@, idx)])
        /\ last' = [op |-> "cart"]
        /\ UNCHANGED <<now, scope>>

ClearCart(s, ok1) ==
    LET ss == session_state[s]
        p == get_products(store, Cache(s), TRUE, TRUE, ok1, now)
    IN  /\ ss.cart # <<>>
        /\ ShowsCart(ss, p.res)
        /\ Sent(ok1, p.called)
        /\ Commit(s, p.st, p.c, [ss EXCEPT !.cart = <<>>])
        /\ last' = [op |-> "clear_cart", sess |-> s]
        /\ UNCHANGED <<now, scope>>

(* The Create Invoice button opens the payment form; Cancel closes it.     *)
CreateInvoice(s, ok1) ==
    LET ss == session_state[s]
        p == get_products(store, Cache(s), TRUE, TRUE, ok1, now)
    IN  /\ ss.cart # <<>>
        /\ ~ss.show_payment_popup
        /\ ShowsCart(ss, p.res)
        /\ Sent(ok1, p.called)
        /\ Commit(s, p.st, p.c, [ss EXCEPT !.show_payment_popup = TRUE])
        /\ last' = [op |-> "cart"]
        /\ UNCHANGED <<now, scope>>

CancelCreate(s, ok1) ==
    LET ss == session_state[s]
        p == get_products(store, Cache(s), TRUE, TRUE, ok1, now)
    IN  /\ ss.cart # <<>>
        /\ ss.show_payment_popup
        /\ ShowsCart(ss, p.res)
        /\ Sent(ok1, p.called)
        /\ Commit(s, p.st, p.c, [ss EXCEPT !.show_payment_popup = FALSE])
        /\ last' = [op |-> "cart"]
        /\ UNCHANGED <<now, scope>>

(* Closes the payment form and keeps the cart.                             *)
close_popup_only(ss, invoice_record) ==
    IF invoice_record # <<>> THEN [ss EXCEPT !.show_payment_popup = FALSE] ELSE ss

(* "Clear cart and popup" of the confirm branch, taken when invoice_record *)
(* is not None.                                                            *)
clear_cart_and_popup(ss, invoice_record) ==
    IF invoice_record # <<>>
    THEN [ss EXCEPT !.cart = <<>>, !.show_payment_popup = FALSE]
    ELSE ss

(* The payment form outside the block that shows the cart: confirmed with  *)
(* any cart.                                                               *)
ConfirmCreate_any_cart(s, paid_amount, ok1, ok2, ok3) ==
    LET ss == session_state[s]
        p == get_products(store, Cache(s), TRUE, TRUE, ok1, now)
        selected_customer == store.customers[1]
        invoice_number == "INV-" \o ToString(now)
        amount == total_amount(ss.cart)
        out == save_invoice_record(p.st, p.c, selected_customer, ss.cart, invoice_number, amount, TRUE, paid_amount, ss.current_user, ok2, ok3)
    IN  /\ ss.show_payment_popup
        /\ paid_amount \in 0..amount
        /\ ShowsCart(ss, p.res)
        /\ Sent(ok1, p.called) /\ Sent(ok3, out.res # <<>>)
        /\ Commit(s, out.st, out.c, clear_cart_and_popup(ss, out.res))
        /\ last' = [op |-> "confirm_create", sess |-> s, created |-> out.res,
                    cart |-> ss.cart, invoice_ok |-> ok2, items_ok |-> ok3]
        /\ UNCHANGED <<now, scope>>

(* payment_form confirmed with paid_amount, which the number input keeps   *)
(* within 0..total_amount and starts at total_amount.  ok2, ok3: the       *)
(* inserts of the invoice and of its items.                                *)
ConfirmCreate(s, paid_amount, ok1, ok2, ok3) ==
    LET ss == session_state[s]
        p == get_products(store, Cache(s), TRUE, TRUE, ok1, now)
        selected_customer == store.customers[1]
        invoice_number == "INV-" \o ToString(now)
        amount == total_amount(ss.cart)
        out == save_invoice_record(p.st, p.c, selected_customer, ss.cart, invoice_number, amount, TRUE, paid_amount, ss.current_user, ok2, ok3)
    IN  /\ ss.cart # <<>>
        /\ ss.show_payment_popup
        /\ paid_amount \in 0..amount
        /\ ShowsCart(ss, p.res)
        /\ Sent(ok1, p.called) /\ Sent(ok3, out.res # <<>>)
        /\ Commit(s, out.st, out.c, clear_cart_and_popup(ss, out.res))
        /\ last' = [op |-> "confirm_create", sess |-> s, created |-> out.res,
                    cart |-> ss.cart, invoice_ok |-> ok2, items_ok |-> ok3]
        /\ UNCHANGED <<now, scope>>

(* admin_panel, the product list: the rows of get_products(False), the     *)
(* inactive ones when show_inactive is ticked.                             *)
ListedProducts(ss, products, show_inactive) ==
    LET Shown(r) == show_inactive \/ r.active
    IN  SelectSeq(products, Shown)

(* The Activate / Deactivate button of a listed product.                   *)
ToggleProduct(s, id, show_inactive, ok1, ok2) ==
    LET ss == session_state[s]
        p == get_products(store, Cache(s), FALSE, TRUE, ok1, now)
        listed == ListedProducts(ss, p.res, show_inactive)
    IN  /\ ss.authenticated
        /\ ShowsAdminPanel(ss)
        /\ \E i \in 1..Len(listed) :
           /\ Sent(ok1, p.called)
           /\ listed[i].id = id
           /\ LET u == update_product(p.st, p.c, id, [active |-> ~listed[i].active], ok2)
              IN  Commit(s, u.st, u.c, ss)
           /\ last' = [op |-> "product"]
           /\ UNCHANGED <<now, scope>>

(* The delete button of a listed active product.                           *)
DeleteProduct(s, id, show_inactive, ok1, ok2) ==
    LET ss == session_state[s]
        p == get_products(store, Cache(s), FALSE, TRUE, ok1, now)
        listed == ListedProducts(ss, p.res, show_inactive)
    IN  /\ ss.authenticated
        /\ ShowsAdminPanel(ss)
        /\ \E i \in 1..Len(listed) :
           /\ Sent(ok1, p.called)
           /\ listed[i].id = id
           /\ listed[i].active
           /\ LET d == delete_product(p.st, p.c, id, ok2)
              IN  /\ Commit(s, d.st, d.c, ss)
                  /\ last' = [op |-> "delete_product", sess |-> s, id |-> id,
                              done |-> d.res, items_before |-> store.invoice_items]
           /\ UNCHANGED <<now, scope>>

(* The edit button of a listed product opens its inline form.              *)
EditProduct(s, id, show_inactive, ok1) ==
    LET ss == session_state[s]
        p == get_products(store, Cache(s), FALSE, TRUE, ok1, now)
        listed == ListedProducts(ss, p.res, show_inactive)
    IN  /\ ss.authenticated
        /\ ShowsAdminPanel(ss)
        /\ \E i \in 1..Len(listed) :
           /\ Sent(ok1, p.called)
           /\ listed[i].id = id
           /\ ~Get(ss, "editing_" \o ToString(id), FALSE)
           /\ Commit(s, p.st, p.c,
                     [ss EXCEPT !.extra = DictSet(@, "editing_" \o ToString(id), TRUE)])
           /\ last' = [op |-> "product"]
           /\ UNCHANGED <<now, scope>>

(* The inline form saved with a new price.                                 *)
SaveProduct(s, id, show_inactive, new_price, ok1, ok2) ==
    LET ss == session_state[s]
        p == get_products(store, Cache(s), FALSE, TRUE, ok1, now)
        listed == ListedProducts(ss, p.res, show_inactive)
    IN  /\ ss.authenticated
        /\ ShowsAdminPanel(ss)
        /\ \E i \in 1..Len(listed) :
           /\ Sent(ok1, p.called)
           /\ listed[i].id = id
           /\ Get(ss, "editing_" \o ToString(id), FALSE)
           /\ LET u == update_product(p.st, p.c, id, [price |-> new_price], ok2)
              IN  Commit(s, u.st, u.c,
                         IF u.res # <<>>
                         THEN [ss EXCEPT !.extra = DictDel(@, {"editing_" \o ToString(id)})]
                         ELSE ss)
           /\ last' = [op |-> "product"]
           /\ UNCHANGED <<now, scope>>

NextSales ==
    \/ Tick
    \/ \E s \in Sessions, ok1, ok2 \in BOOLEAN : MainRender(s, ok1, ok2)
    \/ \E s \in Sessions, idx \in ProductIds, q \in Quantities, ok1 \in BOOLEAN :
          store.next_id.invoices <= MaxDbRows /\ AddToCart(s, idx, q, ok1)
    \/ \E s \in Sessions, idx \in 1..MaxCart, ok1 \in BOOLEAN : RemoveFromCart(s, idx, ok1)
    \/ \E s \in Sessions, ok1 \in BOOLEAN : ClearCart(s, ok1)
    \/ \E s \in Sessions, ok1 \in BOOLEAN : CreateInvoice(s, ok1)
    \/ \E s \in Sessions, ok1 \in BOOLEAN : CancelCreate(s, ok1)
    \/ \E s \in Sessions, paid \in 0..(4 * MaxCart), ok1, ok2, ok3 \in BOOLEAN :
          /\ store.next_id.invoices <= MaxDbRows
          /\ paid = total_amount(session_state[s].cart)
          /\ ConfirmCreate(s, paid, ok1, ok2, ok3)
    \/ \E s \in AdminSessions, id \in ProductIds, si, ok1, ok2 \in BOOLEAN :
          DeleteProduct(s, id, si, ok1, ok2)
    \/ \E s \in AdminSessions, id \in ProductIds, si, ok1 \in BOOLEAN :
          EditProduct(s, id, si, ok1)
    \/ \E s \in AdminSessions, id \in ProductIds, si, ok1, ok2 \in BOOLEAN, np \in Prices :
          SaveProduct(s, id, si, np, ok1, ok2)

SpecSales == InitSales /\ [][NextSales]_vars

(***************************************************************************)
(* Two sellers at once: the admin, on the tabs, and the salesman each fill *)
(* a cart of one entry and confirm it.                                     *)
(***************************************************************************)
InitRush ==
    /\ store = StockedStore(OnSale)
    /\ session_state = [s \in Sessions |->
                           IF s \in AdminSessions THEN LoggedIn(default_admin) ELSE LoggedIn(bob)]
    /\ now = StartTime
    /\ last = NoOp
    /\ scope = {"products"}
    /\ fetched_before_write = [s \in Sessions |-> {}]

NextRush ==
    \/ Tick
    \/ \E s \in Sessions, idx \in ProductIds, q \in Quantities, ok1 \in BOOLEAN :
          /\ store.next_id.invoices <= MaxInvoices
          /\ session_state[s].cart = <<>>
          /\ AddToCart(s, idx, q, ok1)
    \/ \E s \in Sessions, ok1 \in BOOLEAN : CreateInvoice(s, ok1)
    \/ \E s \in Sessions, ok1 \in BOOLEAN : CancelCreate(s, ok1)
    \/ \E s \in Sessions, paid \in 0..(4 * MaxCart), ok1, ok2, ok3 \in BOOLEAN :
          /\ store.next_id.invoices <= MaxInvoices
          /\ paid = total_amount(session_state[s].cart)
          /\ ConfirmCreate(s, paid, ok1, ok2, ok3)

SpecRush == InitRush /\ [][NextRush]_vars

(***************************************************************************)
(* The product list of the admin panel, after a sale: the runs start with  *)
(* the products registered and one invoice of the salesman in the store.   *)
(***************************************************************************)
SoldStore ==
    LET cart == <<[product |-> "pen", price |-> 1, quantity |-> 2],
                  [product |-> "ink", price |-> 1, quantity |-> 1]>>
    IN  save_invoice_record(StockedStore(Catalogue), [dc |-> EmptyDict, lu |-> EmptyDict, pre |-> {}], [id |-> 1], cart, "INV-" \o ToString(StartTime), total_amount(cart), TRUE, total_amount(cart), "bob", TRUE, TRUE).st

InitCatalog ==
    /\ store = SoldStore
    /\ session_state = [s \in Sessions |->
                           IF s \in AdminSessions THEN LoggedIn(default_admin) ELSE LoggedIn(bob)]
    /\ now = StartTime
    /\ last = NoOp
    /\ scope = {"products"}
    /\ fetched_before_write = [s \in Sessions |-> {}]

NextCatalog ==
    \/ Tick
    \/ \E s \in Sessions, ok1, ok2 \in BOOLEAN : MainRender(s, ok1, ok2)
    \/ \E s \in AdminSessions, ok1 \in BOOLEAN : ToggleAdminPanel(s, ok1)
    \/ \E s \in AdminSessions, id \in 1..Len(Catalogue), si, ok1, ok2 \in BOOLEAN :
          ToggleProduct(s, id, si, ok1, ok2)
    \/ \E s \in AdminSessions, id \in 1..Len(Catalogue), si, ok1, ok2 \in BOOLEAN :
          DeleteProduct(s, id, si, ok1, ok2)

SpecCatalog == InitCatalog /\ [][NextCatalog]_vars

(***************************************************************************)
(* Adding products: the Add Single Product form and the CSV import of the  *)
(* admin panel, and the Quick Upload of the Create Invoice tab.  The runs  *)
(* start with no product registered.                                       *)
(***************************************************************************)
(* The uploaded files, as the rows of their data frame: a name twice in    *)
(* two cases, a name after a blank, another name.                          *)
CsvFiles ==
    {<<[product |-> "pen", price |-> 1], [product |-> "Pen", price |-> 2]>>,
     <<[product |-> " pen", price |-> 1]>>,
     <<[product |-> "ink", price |-> 1]>>}

RECURSIVE products_to_add(_, _)
products_to_add(df, existing_product_names) ==
    IF df = <<>> THEN <<>>
    ELSE LET product_name == Strip(Head(df).product)
             rest == products_to_add(Tail(df), existing_product_names)
         IN  IF Lower(product_name) \in existing_product_names THEN rest
             ELSE <<[product |-> product_name, price |-> Head(df).price]>> \o rest

(* parsed: pd.read_csv returns the rows df, or raises.  ok1, ok2: the      *)
(* select and the insert.  res is success.                                 *)
load_products_from_csv(st, c, df, parsed, ok1, ok2, t) ==
    IF ~parsed THEN [st |-> st, c |-> c, res |-> FALSE, fetched |-> FALSE, added |-> FALSE]
    ELSE LET g == get_products(st, c, FALSE, TRUE, ok1, t)
             existing_product_names == {Lower(r.product) : r \in Range(g.res)}
             rows == products_to_add(df, existing_product_names)
         IN  IF rows # <<>>
             THEN LET b == bulk_add_products(g.st, g.c, rows, ok2)
                  IN  [st |-> b.st, c |-> b.c, res |-> b.res # <<>>, fetched |-> g.called,
                       added |-> TRUE]
             ELSE [st |-> g.st, c |-> g.c, res |-> TRUE, fetched |-> g.called,
                   added |-> FALSE]

(* admin_panel, add_product_form submitted with a name and a price.  ok1,  *)
(* ok2: the select and the insert; ok3: the select of the list below the   *)
(* form, in the run that does not end with st.rerun().                     *)
AddProductForm(s, new_product_name, new_product_price, ok1, ok2, ok3) ==
    LET ss == session_state[s]
        g == get_products(store, Cache(s), FALSE, TRUE, ok1, now)
        Same(r) == Lower(r.product) = Lower(new_product_name)
        existing_product == SelectSeq(g.res, Same)
        product_data == [product |-> Strip(new_product_name), price |-> new_product_price,
                         active |-> TRUE]
        a == IF existing_product # <<>> THEN Out(g.st, g.c, <<>>)
             ELSE add_product(g.st, g.c, product_data, ok2)
        r == IF a.res # <<>> THEN [st |-> a.st, c |-> a.c, res |-> <<>>, called |-> FALSE]
             ELSE get_products(a.st, a.c, FALSE, TRUE, ok3, now)
    IN  /\ ss.authenticated
        /\ ShowsAdminPanel(ss)
        /\ Len(store.products) < MaxRows
        /\ Sent(ok1, g.called) /\ Sent(ok2, existing_product = <<>>) /\ Sent(ok3, r.called)
        /\ Commit(s, r.st, r.c, ss)
        /\ last' = [op |-> "add_product_form", sess |-> s]
        /\ UNCHANGED <<now, scope>>

(* admin_panel, Import Products to Database pressed for an uploaded file.  *)
(* The preview has read the file before load_products_from_csv reads it    *)
(* again.                                                                  *)
ImportCsv(s, df, parsed, ok1, ok2, ok3) ==
    LET ss == session_state[s]
        l == load_products_from_csv(store, Cache(s), df, parsed, ok1, ok2, now)
        r == IF l.res THEN [st |-> l.st, c |-> l.c, res |-> <<>>, called |-> FALSE]
             ELSE get_products(l.st, l.c, FALSE, TRUE, ok3, now)
    IN  /\ ss.authenticated
        /\ ShowsAdminPanel(ss)
        /\ Len(store.products) < MaxRows
        /\ Sent(ok1, l.fetched) /\ Sent(ok2, l.added) /\ Sent(ok3, r.called)
        /\ Commit(s, r.st, r.c, ss)
        /\ last' = [op |-> "import_csv", sess |-> s]
        /\ UNCHANGED <<now, scope>>

(* main_app, Create Invoice tab with no active product listed: the Quick   *)
(* Upload of an admin.                                                     *)
QuickUpload(s, df, ok1, ok2, ok3) ==
    LET ss == session_state[s]
        p == get_products(store, Cache(s), TRUE, TRUE, ok1, now)
        l == load_products_from_csv(p.st, p.c, df, TRUE, ok2, ok3, now)
    IN  /\ ss.authenticated
        /\ ~ShowsAdminPanel(ss)
        /\ ss.user_role = "admin"
        /\ Len(store.products) < MaxRows
        /\ p.res = <<>>
        /\ Sent(ok1, p.called) /\ Sent(ok2, l.fetched) /\ Sent(ok3, l.added)
        /\ Commit(s, l.st, l.c, ss)
        /\ last' = [op |-> "quick_upload", sess |-> s]
        /\ UNCHANGED <<now, scope>>

InitProducts ==
    /\ store = StockedStore(<<>>)
    /\ session_state = [s \in Sessions |->
                           IF s \in AdminSessions THEN LoggedIn(default_admin) ELSE LoggedIn(bob)]
    /\ now = StartTime
    /\ last = NoOp
    /\ scope = {"products"}
    /\ fetched_before_write = [s \in Sessions |-> {}]

NextProducts ==
    \/ Tick
    \/ \E s \in Sessions, ok1, ok2 \in BOOLEAN : MainRender(s, ok1, ok2)
    \/ \E s \in Sessions, ok1 \in BOOLEAN : ToggleAdminPanel(s, ok1)
    \/ \E s \in Sessions, n \in ProductNames, ok1, ok2, ok3 \in BOOLEAN :
          AddProductForm(s, n, 1, ok1, ok2, ok3)
    \/ \E s \in Sessions, df \in CsvFiles, parsed, ok1, ok2, ok3 \in BOOLEAN :
          ImportCsv(s, df, parsed, ok1, ok2, ok3)
    \/ \E s \in Sessions, df \in CsvFiles, ok1, ok2, ok3 \in BOOLEAN :
          QuickUpload(s, df, ok1, ok2, ok3)
    \/ \E s \in Sessions : RefreshData(s)

SpecProducts == InitProducts /\ [][NextProducts]_vars

(***************************************************************************)
(* Two browsers on one store: the methods of OptimizedDatabaseManager      *)
(* called by two sessions, session s1 writing and session s2 listing.      *)
(***************************************************************************)
NextShared ==
    \/ Tick
    \/ \E key \in ReadKeys, ok \in BOOLEAN : DbRead("s2", key, TRUE, ok)
    \/ \E ok \in BOOLEAN : DbWrite("s1", ok)

SpecShared == Init /\ [][NextShared]_vars

(***************************************************************************)
(* The Invoice History tab.  Two sellers, the admin on the tabs and the    *)
(* salesman, confirm their invoices and list and delete them.  The runs    *)
(* start when each seller has put a product into the cart and pressed      *)
(* Create Invoice, within the first second.  The tab lists the rows of     *)
(* db.get_invoices in the order of the select (the rows of a run have one  *)
(* date, which the stable sort keeps in place), all on the first page.     *)
(***************************************************************************)
(* The session of user after Add to Cart and Create Invoice at StartTime.  *)
ReadyToConfirm(user) ==
    LET p == get_products(StockedStore(OnSale), [dc |-> EmptyDict, lu |-> EmptyDict, pre |-> {}],
                          TRUE, TRUE, TRUE, StartTime)
        cart_item == [product |-> p.res[1].product, price |-> p.res[1].price, quantity |-> 2]
    IN  [LoggedIn(user) EXCEPT !.cart = <<cart_item>>, !.show_payment_popup = TRUE,
                               !.data_cache = p.c.dc, !.last_cache_update = p.c.lu]

InitHistory ==
    /\ store = StockedStore(OnSale)
    /\ session_state = [s \in Sessions |->
                           IF s \in AdminSessions THEN ReadyToConfirm(default_admin)
                           ELSE ReadyToConfirm(bob)]
    /\ now = StartTime
    /\ last = NoOp
    /\ scope = {"invoices"}
    /\ fetched_before_write = [s \in Sessions |-> {}]

ShowsHistory(ss) == ss.authenticated /\ ~ShowsAdminPanel(ss)

HistoryRead(st, c, ss, ok, t) == get_invoices(st, c, history_created_by(ss), TRUE, ok, t)

can_delete(ss, invoice) ==
    \/ ss.user_role = "admin"
    \/ invoice.created_by = ss.current_user
    \/ invoice.salesman = ss.current_user

confirm_key(invoice) == "confirm_invoice_delete_" \o invoice.invoice_number

(* The buttons of a listed invoice carry its invoice_number in their key;  *)
(* the run stops with a duplicate-key error at the first listed invoice    *)
(* whose number an invoice before it has, so the buttons up to there are   *)
(* the ones that exist.                                                    *)
HasButtons(invoices, idx) ==
    /\ idx \in 1..Len(invoices)
    /\ \A i, j \in 1..idx : i # j => invoices[i].invoice_number # invoices[j].invoice_number

(* A text that `in` is applied to is the list of its parts: an invoice     *)
(* number is "INV-" and the digits of its second, a customer name is one   *)
(* part, a status is the list of its words.                                *)
Contains(needle, text) ==
    \E i \in 0..(Len(text) - Len(needle)) : SubSeq(text, i + 1, i + Len(needle)) = needle

LowerText(text) == [i \in 1..Len(text) |-> Lower(text[i])]

NumberText(invoice_number) ==
    LET t == CHOOSE t \in StartTime..(StartTime + CACHE_TTL) :
                 invoice_number = "INV-" \o ToString(t)
    IN  <<"INV-", ToString(t)>>

(* filter_items(items, search_term, ['invoice_number']).                   *)
filter_items(items, search_term) ==
    LET search_lower == LowerText(search_term)
        Found(item) == Contains(search_lower, LowerText(NumberText(item.invoice_number)))
    IN  IF search_term = <<>> THEN items ELSE SelectSeq(items, Found)

FilterAll == <<"All">>

(* The options of the status selectbox and what is typed into the search   *)
(* box: nothing, the head of every invoice number, a customer's name, the  *)
(* digits of the first second.                                             *)
StatusFilters == {FilterAll, StatusPaid, StatusUnpaid, StatusPartial}

SearchTerms == {<<>>, <<"INV-">>, <<"ann">>, <<ToString(StartTime)>>}

(* "Apply filters efficiently": filtered_invoices.                         *)
filtered_invoices(invoices, status_filter, search_invoice) ==
    LET ByStatus(inv) == Contains(status_filter, inv.status)
        ByCustomer(inv) ==
            Contains(LowerText(search_invoice), LowerText(<<inv.customers[1].name>>))
        by_status == IF status_filter # FilterAll THEN SelectSeq(invoices, ByStatus)
                     ELSE invoices
        by_number == filter_items(by_status, search_invoice)
    IN  IF search_invoice # <<>>
        THEN IF by_number = <<>> THEN SelectSeq(invoices, ByCustomer) ELSE by_number
        ELSE by_status

(* A run of the tab without a click on a button, with the status filter    *)
(* and the search box as they are set.  shown: the invoices displayed.     *)
HistoryRender(s, status_filter, search_invoice, ok1) ==
    LET ss == session_state[s]
        g == HistoryRead(store, Cache(s), ss, ok1, now)
    IN  /\ ShowsHistory(ss)
        /\ Sent(ok1, g.called)
        /\ Commit(s, g.st, g.c, ss)
        /\ last' = [op |-> "history", sess |-> s, status_filter |-> status_filter,
                    search |-> search_invoice, invoices |-> g.res,
                    shown |-> IF g.res # <<>>
                              THEN filtered_invoices(g.res, status_filter, search_invoice)
                              ELSE <<>>]
        /\ UNCHANGED <<now, scope>>

(* Deletes at the first click.                                             *)
DeleteInvoiceClick_one_click(s, idx, ok1, ok2) ==
    LET ss == session_state[s]
        g == HistoryRead(store, Cache(s), ss, ok1, now)
    IN  /\ ShowsHistory(ss)
        /\ Sent(ok1, g.called)
        /\ HasButtons(g.res, idx)
        /\ can_delete(ss, g.res[idx])
        /\ LET invoice == g.res[idx]
               d == delete_invoice(g.st, g.c, invoice.invoice_number, ok2)
           IN  /\ Commit(s, d.st, d.c, ss)
               /\ last' = [op |-> "delete_invoice_click", sess |-> s,
                           invoice_number |-> invoice.invoice_number,
                           confirmed |-> TRUE, done |-> d.res]
        /\ UNCHANGED <<now, scope>>

(* The Delete Invoice button of a listed invoice: the first click sets     *)
(* confirm_invoice_delete_<number> and reruns; a click with the flag set   *)
(* calls db.delete_invoice and, when it returns True, deletes the flag.    *)
DeleteInvoiceClick(s, idx, ok1, ok2) ==
    LET ss == session_state[s]
        g == HistoryRead(store, Cache(s), ss, ok1, now)
    IN  /\ ShowsHistory(ss)
        /\ Sent(ok1, g.called)
        /\ HasButtons(g.res, idx)
        /\ can_delete(ss, g.res[idx])
        /\ LET invoice == g.res[idx]
               confirmed == Get(ss, confirm_key(invoice), FALSE)
               d == IF confirmed
                    THEN delete_invoice(g.st, g.c, invoice.invoice_number, ok2)
                    ELSE Out(g.st, g.c, FALSE)
               ss1 == IF ~confirmed
                      THEN [ss EXCEPT !.extra = DictSet(@, confirm_key(invoice), TRUE)]
                      ELSE IF d.res
                           THEN [ss EXCEPT !.extra = DictDel(@, {confirm_key(invoice)})]
                           ELSE ss
           IN  /\ Sent(ok2, confirmed)
               /\ Commit(s, d.st, d.c, ss1)
               /\ last' = [op |-> "delete_invoice_click", sess |-> s,
                           invoice_number |-> invoice.invoice_number,
                           confirmed |-> confirmed, done |-> d.res]
        /\ UNCHANGED <<now, scope>>

NextHistory ==
    \/ Tick
    \/ \E s \in Sessions, paid \in 0..(4 * MaxCart), ok1, ok2, ok3 \in BOOLEAN :
          /\ store.next_id.invoices <= MaxInvoices
          /\ paid = total_amount(session_state[s].cart)
          /\ ConfirmCreate(s, paid, ok1, ok2, ok3)
    \/ \E s \in Sessions, ok1 \in BOOLEAN : HistoryRender(s, FilterAll, <<>>, ok1)
    \/ \E s \in Sessions, idx \in 1..MaxInvoices, ok1, ok2 \in BOOLEAN :
          DeleteInvoiceClick(s, idx, ok1, ok2)

SpecHistory == InitHistory /\ [][NextHistory]_vars

(***************************************************************************)
(* The filters of the Invoice History tab: the two sellers confirm their   *)
(* invoices with any payment, the store answering, and the admin lists     *)
(* them with every status filter and search term.                          *)
(***************************************************************************)
NextFilter ==
    \/ Tick
    \/ \E s \in Sessions, paid \in 0..(4 * MaxCart) :
          store.next_id.invoices <= MaxInvoices /\ ConfirmCreate(s, paid, TRUE, TRUE, TRUE)
    \/ \E s \in AdminSessions, f \in StatusFilters, q \in SearchTerms :
          HistoryRender(s, f, q, TRUE)

SpecFilter == InitHistory /\ [][NextFilter]_vars

(***************************************************************************)
(* One browser used by one user after another: in the first session the    *)
(* admin, later whoever logs in, fills the cart, opens the payment form,   *)
(* creates and deletes invoices, opens the admin panel and the inline form *)
(* of a product, logs out, and the next user logs in.                      *)
(***************************************************************************)
NextLogout ==
    \/ Tick
    \/ \E s \in AdminSessions, idx \in ProductIds, q \in Quantities, ok1 \in BOOLEAN :
          /\ store.next_id.invoices <= MaxInvoices
          /\ session_state[s].cart = <<>>
          /\ AddToCart(s, idx, q, ok1)
    \/ \E s \in AdminSessions, ok1 \in BOOLEAN : CreateInvoice(s, ok1)
    \/ \E s \in AdminSessions, paid \in 0..(4 * MaxCart), ok1, ok2, ok3 \in BOOLEAN :
          /\ store.next_id.invoices <= MaxInvoices
          /\ paid = total_amount(session_state[s].cart)
          /\ ConfirmCreate(s, paid, ok1, ok2, ok3)
    \/ \E s \in AdminSessions, idx \in 1..MaxInvoices, ok1, ok2 \in BOOLEAN :
          DeleteInvoiceClick(s, idx, ok1, ok2)
    \/ \E s \in AdminSessions, ok1 \in BOOLEAN : ToggleAdminPanel(s, ok1)
    \/ \E s \in AdminSessions, id \in ProductIds, si, ok1 \in BOOLEAN :
          EditProduct(s, id, si, ok1)
    \/ \E s \in AdminSessions : Logout(s)
    \/ \E s \in AdminSessions, cr \in Credentials, ok1, ok2, ok3 \in BOOLEAN :
          LoginSubmit(s, cr[1], cr[2], ok1, ok2, ok3)

SpecLogout == InitRush /\ [][NextLogout]_vars

(***************************************************************************)
(* The JSON invoice uploader (src/test.py), a script of its own on the     *)
(* same store, without session state or cache.  The customers are the      *)
(* ones the Add Customer tab of the application registers.                 *)
(***************************************************************************)
(* The invoices of an uploaded file: one names a customer, one the same    *)
(* name in another case, one a name nobody has, one carries a customer_id  *)
(* and no 'customer'.                                                      *)
UploadedInvoices ==
    {[invoice_number |-> "U1", customer |-> "ann"],
     [invoice_number |-> "U2", customer |-> "Ann"],
     [invoice_number |-> "U3", customer |-> "zed"],
     [invoice_number |-> "U4", customer_id |-> 1]}

(* json.load(uploaded_file): a list of one or two invoices (a single       *)
(* object is wrapped into a list).                                         *)
UploadFiles ==
    {<<a>> : a \in UploadedInvoices} \cup {<<a, b>> : a, b \in UploadedInvoices}

(* Matches the name in any case.                                           *)
get_customer_id_ignore_case(st, name, newest_first) ==
    LET Named(c) == Lower(c.name) = Lower(name)
        data == IF newest_first THEN Reverse(SelectSeq(st.customers, Named))
                ELSE SelectSeq(st.customers, Named)
    IN  IF data # <<>> THEN <<data[1].id>> ELSE <<>>

(* select("id").eq("name", name): the select has no order, so the rows     *)
(* come oldest first or newest first.  The result is <<id>> for the id of  *)
(* data[0], and <<>> for None.                                             *)
get_customer_id(st, name, newest_first) ==
    LET Named(c) == c.name = name
        data == IF newest_first THEN Reverse(SelectSeq(st.customers, Named))
                ELSE SelectSeq(st.customers, Named)
    IN  IF data # <<>> THEN <<data[1].id>> ELSE <<>>

(* invoice["customer_id"] = customer_id; del invoice["customer"].          *)
WithCustomerId(invoice, customer_id) ==
    [f \in (DOMAIN invoice \ {"customer"}) \cup {"customer_id"} |->
        IF f = "customer_id" THEN customer_id ELSE invoice[f]]

(* The loop over the uploaded invoices; "if not customer_id" skips None    *)
(* and 0.  oks[i]: the select made for the   *)
(* i-th invoice returns, or raises.  raised: a select has raised and the   *)
(* except branch of the script was taken.                                  *)
RECURSIVE invoices_to_insert(_, _, _, _, _)
invoices_to_insert(st, invoices, i, oks, newest_first) ==
    IF i > Len(invoices) THEN [rows |-> <<>>, raised |-> FALSE]
    ELSE LET invoice == invoices[i]
             rest == invoices_to_insert(st, invoices, i + 1, oks, newest_first)
         IN  IF "customer" \in DOMAIN invoice
             THEN IF ~oks[i] THEN [rows |-> <<>>, raised |-> TRUE]
                  ELSE LET customer_id == get_customer_id(st, invoice.customer, newest_first)
                       IN  IF customer_id = <<>> \/ customer_id[1] = 0 THEN rest
                           ELSE [rows |-> <<WithCustomerId(invoice, customer_id[1])>> \o rest.rows,
                                 raised |-> rest.raised]
             ELSE [rows |-> <<invoice>> \o rest.rows, raised |-> rest.raised]

(* A file is uploaded.  ok3: the insert returns, or raises.                *)
Upload(invoices, oks, ok3, newest_first) ==
    LET l == invoices_to_insert(store, invoices, 1, oks, newest_first)
        called == ~l.raised /\ l.rows # <<>>
    IN  /\ \A i \in 1..Len(oks) :
              ~oks[i] => i <= Len(invoices) /\ "customer" \in DOMAIN invoices[i]
        /\ Sent(ok3, called)
        /\ store' = IF called /\ ok3 THEN InsertAll(store, "invoices", l.rows) ELSE store
        /\ last' = [op |-> "upload", file |-> invoices, insert_called |-> called,
                    ok |-> ~l.raised /\ ok3]
        /\ UNCHANGED <<session_state, now, scope, fetched_before_write>>

NextUpload ==
    \/ Tick
    \/ \E s \in Sessions, nc \in NewCustomers : CustomerForm(s, nc[1], nc[2], TRUE, TRUE, TRUE)
    \/ \E invoices \in UploadFiles, oks \in [1..2 -> BOOLEAN], ok3, newest_first \in BOOLEAN :
          store.next_id.invoices <= MaxDbRows /\ Upload(invoices, oks, ok3, newest_first)

SpecUpload == InitCust /\ [][NextUpload]_vars


(***************************************************************************)
(* C1.  Cache read-after-write: in a session, once a write of              *)
(* OptimizedDatabaseManager on a table has completed, no read of that      *)
(* table returns a value that was cached before the write, however young   *)
(* the cached entry was.  (stale: the read returned the cached value of a  *)
(* key that was cached when a write on its table completed and that has    *)
(* not been fetched since.)                                                *)
(***************************************************************************)
C1_ReadAfterWrite == last.op = "read" => ~last.stale

(* A read of a key that was cached, then written over, all within the      *)
(* first clock reading (age 0): it went to the store.                      *)
C1_Witness ==
    /\ last.op = "read"
    /\ last.post_write
    /\ last.use_cache
    /\ last.called
    /\ now = StartTime

(***************************************************************************)
(* C10.  A cached read (use_cache) returns the cached value without        *)
(* calling the store exactly when the key has an entry whose age is        *)
(* strictly below the TTL (60 s for invoices, 300 s otherwise); otherwise  *)
(* it calls the store and, when the fetch succeeds, returns the fetched    *)
(* rows and stores them with the current time as the timestamp; when the   *)
(* fetch fails it returns the empty list.  A value of age >= TTL is never  *)
(* returned.                                                               *)
(***************************************************************************)
SpecTTL(key) == IF key.table = "invoices" THEN 60 ELSE 300

C10_Step ==
    last'.op = "read" =>
        LET s == last'.sess
            key == last'.key
            dc == session_state[s].data_cache
            lu == session_state[s].last_cache_update
            fresh == key \in DOMAIN dc /\ key \in DOMAIN lu /\ now - lu[key] < SpecTTL(key)
        IN  /\ last'.use_cache => (~last'.called <=> fresh)
            /\ ~last'.called =>
                  /\ last'.data = dc[key]
                  /\ session_state'[s] = session_state[s]
            /\ last'.called /\ last'.ok =>
                  /\ last'.data = FetchFor(store, key)
                  /\ key \in DOMAIN session_state'[s].data_cache
                  /\ session_state'[s].data_cache[key] = FetchFor(store, key)
                  /\ session_state'[s].last_cache_update[key] = now
            /\ last'.called /\ ~last'.ok => last'.data = <<>>
            /\ store' = store

C10_CacheTTL == [][C10_Step]_vars

(* A cached read of an entry exactly TTL seconds old: the store is called. *)
C10_Witness ==
    /\ last.op = "read"
    /\ last.use_cache
    /\ last.called
    /\ last.ok
    /\ last.age = SpecTTL(last.key)
    /\ last.data # <<>>
(***************************************************************************)
(* C3.  Whenever paid >= total, determine_payment_status returns the       *)
(* fully-paid status and the row save_invoice_record stores has            *)
(* unpaid_amount = 0 (and that status).                                    *)
(***************************************************************************)
C3_FullyPaid ==
    (last.op = "saved" /\ last.paid >= last.total) =>
        /\ last.status = StatusPaid
        /\ last.row.status = StatusPaid
        /\ last.row.unpaid_amount = 0
        /\ last.row \in Range(store.invoices)

C3_Witness ==
    /\ last.op = "saved"
    /\ last.paid > last.total
    /\ last.total > 0
    /\ last.row \in Range(store.invoices)

(***************************************************************************)
(* C4.  Whenever 0 < paid < total, determine_payment_status returns the    *)
(* partially-paid status and the stored row has unpaid_amount = total -    *)
(* paid.                                                                   *)
(***************************************************************************)
C4_PartiallyPaid ==
    (last.op = "saved" /\ 0 < last.paid /\ last.paid < last.total) =>
        /\ last.status = StatusPartial
        /\ last.row.status = StatusPartial
        /\ last.row.unpaid_amount = last.total - last.paid
        /\ last.row \in Range(store.invoices)

C4_Witness ==
    /\ last.op = "saved"
    /\ 0 < last.paid
    /\ last.paid < last.total
    /\ last.row.unpaid_amount > 0

(***************************************************************************)
(* C5.  As claimed: whenever paid <= 0, for every total, the status is     *)
(* unpaid and the stored unpaid_amount is total.                           *)
(***************************************************************************)
C5_Original ==
    (last.op = "saved" /\ last.paid <= 0) =>
        /\ last.status = StatusUnpaid
        /\ last.row.status = StatusUnpaid
        /\ last.row.unpaid_amount = last.total

(***************************************************************************)
(* C5, amended.  Whenever paid <= 0 and paid < total, the status is unpaid *)
(* and the stored unpaid_amount is total - paid, which is total when       *)
(* paid = 0; whenever paid <= 0 and paid >= total (so total <= 0, as with  *)
(* total = 0 and paid = 0) the status is fully paid and unpaid_amount = 0. *)
(***************************************************************************)
C5_Unpaid ==
    (last.op = "saved" /\ last.paid <= 0) =>
        /\ last.paid < last.total =>
              /\ last.status = StatusUnpaid
              /\ last.row.status = StatusUnpaid
              /\ last.row.unpaid_amount = last.total - last.paid
              /\ last.paid = 0 => last.row.unpaid_amount = last.total
        /\ last.paid >= last.total =>
              /\ last.status = StatusPaid
              /\ last.row.status = StatusPaid
              /\ last.row.unpaid_amount = 0

C5_Witness ==
    /\ last.op = "saved"
    /\ last.paid = 0
    /\ last.total > 0
    /\ last.row.status = StatusUnpaid

(***************************************************************************)
(* C8.  Login against the store.  As stated: a login with username s and   *)
(* password p succeeds exactly when the store holds a record with          *)
(* username s, password hash(p) and active = TRUE.                         *)
(***************************************************************************)
Matches(r, username, password) ==
    r.username = username /\ r.password = hash_password(password) /\ r.active

C8_Original ==
    last.op = "login" =>
        (last.success <=>
            \E i \in 1..Len(store.salesmen) :
                Matches(store.salesmen[i], last.username, last.password))

(* C8, as the code has it: a login with username s and password p succeeds *)
(* exactly when the list db.get_salesmen() returned to the session (its    *)
(* cached list, else the rows fetched, else the empty list) holds a        *)
(* record with username s, password hash(p) and active = TRUE; on success  *)
(* authenticated = TRUE, current_user = s and user_role is the role of the *)
(* first such record of the list; on failure the three fields are as they  *)
(* were before.                                                            *)
C8_Login ==
    last.op = "login" =>
        LET ss == session_state[last.sess]
            hits == {i \in 1..Len(last.salesmen) :
                        Matches(last.salesmen[i], last.username, last.password)}
        IN  /\ last.success <=> hits # {}
            /\ last.success =>
                  /\ ss.authenticated
                  /\ ss.current_user = last.username
                  /\ \E i \in hits : /\ \A j \in hits : i <= j
                                      /\ ss.user_role = last.salesmen[i].role
            /\ ~last.success =>
                  <<ss.authenticated, ss.current_user, ss.user_role>> = last.before

(* A login that succeeds on the session's cached list while the store holds *)
(* no active record with these credentials any more.                        *)
C8_Witness ==
    /\ last.op = "login"
    /\ last.success
    /\ last.username = "bob"
    /\ session_state[last.sess].current_user = "bob"
    /\ ~\E i \in 1..Len(store.salesmen) :
            Matches(store.salesmen[i], last.username, last.password)

(***************************************************************************)
(* C9.  Bootstrap of the default admin.  As stated: the login page inserts *)
(* the default admin only when the salesmen table is empty, so the store   *)
(* never holds two records with username 'admin'.                          *)
(***************************************************************************)
C9_Bootstrap ==
    /\ Cardinality({i \in 1..Len(store.salesmen) : store.salesmen[i].username = "admin"}) <= 1
    /\ last.op \in {"login_render", "login"} /\ last.inserted => last.table_was_empty

(***************************************************************************)
(* C6.  Duplicate customers.  As stated: after any sequence of             *)
(* add-customer actions no two customer rows of the store share a phone or *)
(* a lower-cased name.                                                     *)
(***************************************************************************)
Clash(c, name, phone) == c.phone = phone \/ Lower(c.name) = Lower(name)

C6_Original ==
    \A i, j \in 1..Len(store.customers) :
        i # j => ~Clash(store.customers[i], store.customers[j].name, store.customers[j].phone)

(* C6, as the code has it: the add-customer form inserts nothing when the  *)
(* list db.get_customers() returned to the session holds a customer with   *)
(* the same phone, whatever the name, or the same name up to case,         *)
(* whatever the phone, and the store's customers are then as they were;    *)
(* a row it inserts clashes with no customer of that list.                 *)
C6_AddCustomer ==
    last.op = "customer_form" =>
        LET listed == \E i \in 1..Len(last.customers) :
                          Clash(last.customers[i], last.name, last.phone)
        IN  /\ listed => ~last.inserted /\ store.customers = last.before
            /\ last.inserted =>
                  /\ ~listed
                  /\ Len(store.customers) = Len(last.before) + 1
                  /\ store.customers[Len(store.customers)].name = last.name
                  /\ store.customers[Len(store.customers)].phone = last.phone

(* A submission rejected for its phone alone: the listed customer has      *)
(* another name.                                                           *)
C6_Witness ==
    /\ last.op = "customer_form"
    /\ ~last.inserted
    /\ last.customers # <<>>
    /\ \A i \in 1..Len(last.customers) :
          /\ last.customers[i].phone = last.phone
          /\ Lower(last.customers[i].name) # Lower(last.name)
    /\ store.customers = last.before

(***************************************************************************)
(* C2.  Invoice totals.  As stated: for every invoice in the store,        *)
(* total_amount equals the sum of price x quantity over the invoice_items  *)
(* rows persisted for it, whatever update_product and delete_product did   *)
(* to the live products afterwards.                                        *)
(***************************************************************************)
ItemRows(invoice_id) ==
    LET Mine(r) == r.invoice_id = invoice_id IN SelectSeq(store.invoice_items, Mine)

RECURSIVE SumItems(_)
SumItems(rows) ==
    IF rows = <<>> THEN 0
    ELSE Head(rows).price * Head(rows).quantity + SumItems(Tail(rows))

C2_Original ==
    \A i \in 1..Len(store.invoices) :
        store.invoices[i].total_amount = SumItems(ItemRows(store.invoices[i].id))

(* C2, as the code has it: every invoice of the store that has item rows   *)
(* has total_amount equal to the sum of price x quantity over them,        *)
(* whatever update_product and delete_product did afterwards; the payment  *)
(* form that created an invoice persisted one row per cart item when       *)
(* add_invoice_items returned, and none when it raised.                    *)
C2_Total ==
    /\ \A i \in 1..Len(store.invoices) :
          LET rows == ItemRows(store.invoices[i].id)
          IN  rows # <<>> => store.invoices[i].total_amount = SumItems(rows)
    /\ last.op = "confirm_create" /\ last.created # <<>> =>
          LET rows == ItemRows(last.created[1].id)
          IN  IF last.items_ok
              THEN /\ Len(rows) = Len(last.cart)
                   /\ \A k \in 1..Len(rows) :
                         /\ rows[k].product = last.cart[k].product
                         /\ rows[k].price = last.cart[k].price
                         /\ rows[k].quantity = last.cart[k].quantity
              ELSE rows = <<>>

(* An invoice of two items whose product has another price by now and is   *)
(* deactivated.                                                            *)
C2_Witness ==
    \E i \in 1..Len(store.invoices) :
        LET rows == ItemRows(store.invoices[i].id)
        IN  /\ Len(rows) = 2
            /\ store.invoices[i].total_amount = SumItems(rows)
            /\ \E k \in 1..Len(rows), j \in 1..Len(store.products) :
                  /\ store.products[j].product = rows[k].product
                  /\ store.products[j].price # rows[k].price
                  /\ ~store.products[j].active

(***************************************************************************)
(* C7.  Soft delete.  As stated: after delete_product(p) succeeds, p is in *)
(* no listing get_products(active_only=True), its row is still in the      *)
(* store with active = FALSE, and the invoice_items rows are as before.    *)
(***************************************************************************)
ActiveListing(s, ok) == get_products(store, Cache(s), TRUE, TRUE, ok, now).res

Deactivated(id) ==
    \E i \in 1..Len(store.products) :
        store.products[i].id = id /\ ~store.products[i].active

C7_Original ==
    last.op = "delete_product" /\ last.done =>
        /\ \A s \in Sessions, ok \in BOOLEAN :
              \A r \in Range(ActiveListing(s, ok)) : r.id # last.id
        /\ Deactivated(last.id)
        /\ store.invoice_items = last.items_before

(* C7, as the code has it: after delete_product(p) succeeds, p is not in   *)
(* the listing get_products(active_only=True) of the session that deleted  *)
(* it, nor of a session that holds no cached listing younger than 300      *)
(* seconds; its row is still in the store with active = FALSE, and the     *)
(* invoice_items rows are as before.                                       *)
C7_SoftDelete ==
    last.op = "delete_product" /\ last.done =>
        /\ \A s \in Sessions, ok \in BOOLEAN :
              \/ /\ s # last.sess
                 /\ _is_cache_valid(Cache(s), _get_cache_key("products", BoolStr(TRUE)),
                                    CACHE_TTL, now)
              \/ \A r \in Range(ActiveListing(s, ok)) : r.id # last.id
        /\ Deactivated(last.id)
        /\ store.invoice_items = last.items_before

(* A product with sold items deleted by a session that had listed it,      *)
(* while the other session's cached listing still shows it.                *)
C7_Witness ==
    /\ last.op = "delete_product"
    /\ last.done
    /\ \E k \in 1..Len(store.invoice_items), j \in 1..Len(store.products) :
          /\ store.products[j].id = last.id
          /\ store.invoice_items[k].product = store.products[j].product
    /\ \E s \in Sessions \ {last.sess} :
          \E r \in Range(ActiveListing(s, TRUE)) : r.id = last.id
    /\ ActiveListing(last.sess, TRUE) # <<>>

(***************************************************************************)
(* C11.  Invalidation by prefix: when a write method on table T has        *)
(* returned without an exception, the data_cache of the writing session    *)
(* holds no key that starts with T's name, whatever filters the key was    *)
(* built from.                                                             *)
(***************************************************************************)
C11_PrefixInvalidation ==
    last.op = "write" /\ last.ok =>
        \A k \in DOMAIN session_state[last.sess].data_cache : ~StartsWith(k, last.table)

(* A write that found the entries of two filter values of its table in     *)
(* the cache (both product listings, or the invoices of two created_by).   *)
C11_Witness ==
    /\ last.op = "write"
    /\ last.ok
    /\ Cardinality(last.cached) = 2
    /\ \A k \in last.cached : k.arg # NoFilters

(***************************************************************************)
(* C12.  Add Salesman rejects a username that equals, ignoring case, the   *)
(* username of a salesman in the list db.get_salesmen() returned to the    *)
(* form: nothing is inserted.                                              *)
(***************************************************************************)
SameUsername(r, username) == Lower(r.username) = Lower(username)

C12_RejectsDuplicate ==
    last.op = "add_salesman_form" =>
        ((\E r \in Range(last.salesmen) : SameUsername(r, last.username)) => ~last.inserted)

(***************************************************************************)
(* C13.  No two product rows, active or not, have names that are equal     *)
(* ignoring case, after any single adds and CSV imports.                   *)
(***************************************************************************)
C13_UniqueProductNames ==
    \A i, j \in 1..Len(store.products) :
        i # j => Lower(store.products[i].product) # Lower(store.products[j].product)

(***************************************************************************)
(* C14.  In every reachable state, every invoice row that                  *)
(* save_invoice_record stored has unpaid_amount = max(0, total_amount -    *)
(* paid_amount) and the status that determine_payment_status gives for     *)
(* its (total_amount, paid_amount): the operations that follow (listings,  *)
(* deletions) leave the stored fields alone.                               *)
(***************************************************************************)
C14_DerivedFields ==
    \A i \in 1..Len(store.invoices) :
        LET row == store.invoices[i]
        IN  /\ row.unpaid_amount = Max(0, row.total_amount - row.paid_amount)
            /\ row.status = determine_payment_status(row.total_amount, row.paid_amount)

(* An overpaid invoice, listed from the store by a later run and still in  *)
(* the store after a delete that failed: nothing is owed.                  *)
C14_Witness ==
    /\ last.op = "write"
    /\ last.method = "delete_invoice"
    /\ ~last.ok
    /\ \E k \in DOMAIN session_state["s1"].data_cache :
          /\ k.table = "invoices"
          /\ session_state["s1"].data_cache[k] # <<>>
    /\ \E i \in 1..Len(store.invoices) :
          /\ store.invoices[i].paid_amount > store.invoices[i].total_amount
          /\ store.invoices[i].unpaid_amount = 0

(***************************************************************************)
(* C15.  As stated: when the confirmation of a cart of N items creates the *)
(* invoice (save_invoice_record returns the record), the store gains       *)
(* exactly that one invoice row and exactly N invoice_items rows, which    *)
(* reference the new invoice's id and carry, in cart order, the product,   *)
(* the price and the quantity of the cart entries.                         *)
(*                                                                         *)
(* C15_Created: that holds when the insert of the items returns; when it   *)
(* raises, the store gains the invoice row and no item row.                *)
(***************************************************************************)
GainedItems == SubSeq(store'.invoice_items, Len(store.invoice_items) + 1, Len(store'.invoice_items))

CarriesCart(rows, invoice_id, cart) ==
    /\ Len(rows) = Len(cart)
    /\ \A i \in 1..Len(cart) :
          /\ rows[i].invoice_id = invoice_id
          /\ rows[i].product = cart[i].product
          /\ rows[i].price = cart[i].price
          /\ rows[i].quantity = cart[i].quantity

OneInvoiceGained ==
    /\ store'.invoices = Append(store.invoices, last'.created[1])
    /\ \A i \in 1..Len(store.invoices) : store.invoices[i].id # last'.created[1].id
    /\ SubSeq(store'.invoice_items, 1, Len(store.invoice_items)) = store.invoice_items

C15_OriginalStep ==
    last'.op = "confirm_create" /\ last'.created # <<>> =>
        /\ OneInvoiceGained
        /\ CarriesCart(GainedItems, last'.created[1].id, last'.cart)

C15_Original == [][C15_OriginalStep]_vars

C15_CreatedStep ==
    last'.op = "confirm_create" /\ last'.created # <<>> =>
        /\ OneInvoiceGained
        /\ last'.cart = session_state[last'.sess].cart
        /\ IF last'.items_ok
           THEN CarriesCart(GainedItems, last'.created[1].id, last'.cart)
           ELSE GainedItems = <<>>

C15_Created == [][C15_CreatedStep]_vars

(* An invoice created from a cart of two entries that differ (the price    *)
(* was edited between them), with its two item rows stored.                *)
C15_Witness ==
    /\ last.op = "confirm_create"
    /\ last.created # <<>>
    /\ last.items_ok
    /\ Len(last.cart) = 2
    /\ last.cart[1] # last.cart[2]
    /\ Len(ItemRows(last.created[1].id)) = 2

(***************************************************************************)
(* C16.  Right after a confirmation that created the invoice, the          *)
(* session's cart is empty and its payment form is closed; right after a   *)
(* confirmation that created nothing (add_invoice returned None), the cart *)
(* is the cart that was confirmed; right after Clear Cart the cart is      *)
(* empty.                                                                  *)
(***************************************************************************)
C16_CartCleared ==
    /\ last.op = "confirm_create" =>
          IF last.created # <<>>
          THEN /\ session_state[last.sess].cart = <<>>
               /\ ~session_state[last.sess].show_payment_popup
          ELSE /\ session_state[last.sess].cart = last.cart
               /\ last.cart # <<>>
    /\ last.op = "clear_cart" => session_state[last.sess].cart = <<>>

(* A cart of two entries was confirmed and the invoice created.            *)
C16_Witness ==
    /\ last.op = "confirm_create"
    /\ last.created # <<>>
    /\ Len(last.cart) = 2
    /\ session_state[last.sess].cart = <<>>

(***************************************************************************)
(* C17.  No step of the application removes a customer row or a product    *)
(* row: the ids of the customers and the ids of the products in the store  *)
(* after a step include those before it.  (delete_product switches the row *)
(* to active = false; delete_salesman and delete_invoice remove rows.)     *)
(***************************************************************************)
Ids(rows) == {rows[i].id : i \in 1..Len(rows)}

C17_Step ==
    /\ Ids(store.customers) \subseteq Ids(store'.customers)
    /\ Ids(store.products) \subseteq Ids(store'.products)
    /\ Len(store.customers) <= Len(store'.customers)
    /\ Len(store.products) <= Len(store'.products)

C17_NoHardDelete == [][C17_Step]_vars

(* delete_product has returned True and the product's row is in the store, *)
(* inactive.                                                               *)
C17_Witness ==
    /\ last.op = "write"
    /\ last.method = "delete_product"
    /\ last.ok
    /\ \E i \in 1..Len(store.products) : ~store.products[i].active

(***************************************************************************)
(* C18.  In a session whose user_role is not 'admin', none of the admin    *)
(* actions can be triggered: the Admin Panel button, adding, toggling and  *)
(* deleting a salesman, adding, editing, toggling, deleting and importing  *)
(* products, Refresh Data; and the Invoice History of an authenticated     *)
(* session that is not an admin's is filtered by its own user.             *)
(***************************************************************************)
AdminAction(s) ==
    \/ \E ok1 \in BOOLEAN : ToggleAdminPanel(s, ok1)
    \/ \E u \in StaffUsernames, r \in {"salesman", "admin"}, ok2, ok3 \in BOOLEAN :
          AddSalesmanForm(s, u, "pw", r, ok2, ok3)
    \/ \E id \in 1..MaxStaff, ok2, ok3 \in BOOLEAN :
          ToggleSalesman(s, id, ok2, ok3) \/ DeleteSalesman(s, id, ok2, ok3)
    \/ \E n \in ProductNames, ok1, ok2, ok3 \in BOOLEAN : AddProductForm(s, n, 1, ok1, ok2, ok3)
    \/ \E id \in 1..(MaxRows + 1), si, ok1, ok2 \in BOOLEAN :
          \/ ToggleProduct(s, id, si, ok1, ok2)
          \/ DeleteProduct(s, id, si, ok1, ok2)
          \/ EditProduct(s, id, si, ok1)
          \/ \E np \in Prices : SaveProduct(s, id, si, np, ok1, ok2)
    \/ \E df \in CsvFiles, parsed, ok1, ok2, ok3 \in BOOLEAN :
          ImportCsv(s, df, parsed, ok1, ok2, ok3) \/ QuickUpload(s, df, ok1, ok2, ok3)
    \/ RefreshData(s)

C18_AdminOnly ==
    \A s \in Sessions :
        session_state[s].user_role # "admin" =>
            /\ ~ENABLED AdminAction(s)
            /\ session_state[s].authenticated => history_created_by(session_state[s]) # None

(* A salesman's session next to an admin's: products are registered, the   *)
(* admin has the panel open and can act, and the salesman's session holds  *)
(* the products in its cache.                                              *)
C18_Witness ==
    /\ session_state["s2"].user_role = "salesman"
    /\ session_state["s2"].data_cache # EmptyDict
    /\ store.products # <<>>
    /\ ShowsAdminPanel(session_state["s1"])
    /\ ENABLED AdminAction("s1")

(***************************************************************************)
(* C19.  No atomicity, no compensation.  A confirmation whose invoice      *)
(* insert succeeds and whose items insert fails leaves the invoice row in  *)
(* the store with no item row, gets the invoice record back from           *)
(* save_invoice_record and goes on as a success (the cart is cleared);     *)
(* and no later step gives an invoice of the store other item rows than    *)
(* it has: the invoice stays, without items.                               *)
(***************************************************************************)
ItemRowsIn(st, invoice_id) ==
    LET Of(r) == r.invoice_id = invoice_id IN SelectSeq(st.invoice_items, Of)

C19_Step ==
    /\ last'.op = "confirm_create" /\ last'.created # <<>> /\ ~last'.items_ok =>
          /\ store'.invoices = Append(store.invoices, last'.created[1])
          /\ ItemRowsIn(store', last'.created[1].id) = <<>>
          /\ store'.invoice_items = store.invoice_items
          /\ session_state'[last'.sess].cart = <<>>
    /\ \A i \in 1..Len(store.invoices) :
          /\ i <= Len(store'.invoices) /\ store'.invoices[i] = store.invoices[i]
          /\ ItemRowsIn(store', store.invoices[i].id) = ItemRowsIn(store, store.invoices[i].id)

C19_NotAtomic == [][C19_Step]_vars

(* An invoice without item rows is in the store while the work goes on:   *)
(* the admin has deleted the product since, at a later clock reading.      *)
C19_Witness ==
    /\ \E i \in 1..Len(store.invoices) :
          /\ ItemRowsIn(store, store.invoices[i].id) = <<>>
          /\ store.invoices[i].total_amount > 0
          /\ store.invoices[i].invoice_number # "INV-" \o ToString(now)
    /\ last.op = "delete_product"
    /\ last.done

(***************************************************************************)
(* C20.  The invoice number is the clock reading in whole seconds, and     *)
(* nothing else: every confirmation whose invoice insert is not refused by *)
(* the store adds its invoice row, with the number of the current second,  *)
(* whether or not an invoice of that number is in the store.  Two sessions *)
(* that confirm within one second both insert, under one number.           *)
(***************************************************************************)
invoice_number_at(t) == "INV-" \o ToString(t)

C20_SameSecond ==
    last.op = "confirm_create" /\ last.invoice_ok =>
        /\ last.created # <<>>
        /\ store.invoices # <<>>
        /\ store.invoices[Len(store.invoices)] = last.created[1]
        /\ last.created[1].invoice_number = invoice_number_at(now)

(* Two invoices of two users in the store under one invoice number, the    *)
(* second just confirmed.                                                  *)
C20_Witness ==
    /\ last.op = "confirm_create"
    /\ last.created # <<>>
    /\ \E i \in 1..Len(store.invoices) :
          /\ store.invoices[i].id # last.created[1].id
          /\ store.invoices[i].invoice_number = last.created[1].invoice_number
          /\ store.invoices[i].created_by # last.created[1].created_by

(***************************************************************************)
(* C21.  Caches are private per session.  A write of one session leaves    *)
(* the session state of every other session, its two cache maps included,  *)
(* as it was.  A cached read of a session returns its cached value without *)
(* calling the store only while its own entry is younger than the TTL of   *)
(* the key, whatever was written since; a read made TTL seconds or more    *)
(* after the session's last fetch of the key calls the store and, the      *)
(* store answering, returns the rows the store holds now.                  *)
(***************************************************************************)
C21_Step ==
    /\ last'.op = "write" =>
          \A s \in Sessions \ {last'.sess} : session_state'[s] = session_state[s]
    /\ last'.op = "read" =>
          LET key == last'.key
              dc == session_state[last'.sess].data_cache
              lu == session_state[last'.sess].last_cache_update
          IN  /\ ~last'.called =>
                    /\ key \in DOMAIN dc /\ key \in DOMAIN lu
                    /\ now - lu[key] < SpecTTL(key)
                    /\ last'.data = dc[key]
              /\ key \in DOMAIN lu /\ now - lu[key] >= SpecTTL(key) =>
                    /\ last'.called
                    /\ last'.ok => last'.data = FetchFor(store', key)

C21_PrivateCaches == [][C21_Step]_vars

(* The listing session is served its own entry, fetched at an earlier     *)
(* clock reading, after the other session's write: the rows it gets are    *)
(* not the rows of the store.                                              *)
C21_Witness ==
    /\ last.op = "read"
    /\ last.sess = "s2"
    /\ ~last.called
    /\ last.age > 0
    /\ last.data # FetchFor(store, last.key)

(***************************************************************************)
(* C22.  A failure of the data store never leaves the method that called   *)
(* it.  A read whose select raises returns the empty list, leaves the      *)
(* store alone and stores nothing under its key, so that the key has no    *)
(* valid entry and the next read calls the store again; with use_cache it  *)
(* leaves the whole session state as it was.  A write whose store call     *)
(* raises returns None, False or the empty list and leaves the store and   *)
(* the session state, the cache entries included, as they were.            *)
(***************************************************************************)
C22_Step ==
    /\ last'.op = "read" /\ last'.called /\ ~last'.ok =>
          LET s == last'.sess
              key == last'.key
              after == [dc |-> session_state'[s].data_cache,
                        lu |-> session_state'[s].last_cache_update]
          IN  /\ last'.data = <<>>
              /\ store' = store
              /\ ~_is_cache_valid(after, key, SpecTTL(key), now')
              /\ key \in DOMAIN after.dc =>
                    /\ key \in DOMAIN session_state[s].data_cache
                    /\ after.dc[key] = session_state[s].data_cache[key]
                    /\ after.lu[key] = session_state[s].last_cache_update[key]
              /\ last'.use_cache => session_state' = session_state
    /\ last'.op = "write" /\ ~last'.ok =>
          /\ IF last'.method \in {"delete_salesman", "delete_invoice", "delete_product"}
             THEN last'.res = FALSE
             ELSE last'.res = <<>>
          /\ store' = store
          /\ session_state' = session_state

C22_SafeDefaults == [][C22_Step]_vars

(* A cached read found its entry expired, the select raised, and the rows  *)
(* fetched earlier are still what the session holds under the key.         *)
C22_Witness ==
    /\ last.op = "read"
    /\ last.use_cache
    /\ last.called
    /\ ~last.ok
    /\ last.data = <<>>
    /\ last.key \in DOMAIN session_state[last.sess].data_cache
    /\ session_state[last.sess].data_cache[last.key] # <<>>

(***************************************************************************)
(* C23.  An invoice is never created from an empty cart: the confirmation  *)
(* of the payment form cannot run in a session whose cart is empty, also   *)
(* when the cart was emptied (Clear Cart, Remove) while show_payment_popup *)
(* stayed true; every confirmation that ran had a cart of at least one     *)
(* entry, and every invoice of the store has a positive total.             *)
(***************************************************************************)
ConfirmAny(s) ==
    \E paid \in 0..(4 * (MaxCart + 1)), ok1, ok2, ok3 \in BOOLEAN :
        ConfirmCreate(s, paid, ok1, ok2, ok3)

C23_NonEmptyCart ==
    /\ \A s \in Sessions : session_state[s].cart = <<>> => ~ENABLED ConfirmAny(s)
    /\ last.op = "confirm_create" => last.cart # <<>>
    /\ \A i \in 1..Len(store.invoices) : store.invoices[i].total_amount > 0

(* Clear Cart was pressed while the payment form was open: the cart is     *)
(* empty, show_payment_popup is still true, and no confirmation can run.   *)
C23_Witness ==
    /\ last.op = "clear_cart"
    /\ session_state[last.sess].cart = <<>>
    /\ session_state[last.sess].show_payment_popup
    /\ ~ENABLED ConfirmAny(last.sess)

(***************************************************************************)
(* C24.  A session that is not an admin's removes only invoices of its own *)
(* user: every invoice row that a step of such a session removes from the  *)
(* store has created_by or salesman equal to the session's current_user.   *)
(***************************************************************************)
RemovedInvoices == {r \in Range(store.invoices) : r \notin Range(store'.invoices)}

C24_Step ==
    RemovedInvoices # {} =>
        /\ last'.op = "delete_invoice_click"
        /\ LET ss == session_state[last'.sess]
           IN  ss.user_role # "admin" =>
                  \A r \in RemovedInvoices :
                      r.created_by = ss.current_user \/ r.salesman = ss.current_user

C24_OwnInvoicesOnly == [][C24_Step]_vars

(***************************************************************************)
(* C25.  With a status filter other than 'All', the Invoice History tab    *)
(* displays exactly the listed invoices whose stored status equals the     *)
(* selected status; with a search term entered it displays only invoices   *)
(* of that status.                                                         *)
(***************************************************************************)
C25_StatusFilter ==
    last.op = "history" /\ last.status_filter # FilterAll =>
        LET Has(inv) == inv.status = last.status_filter
            wanted == SelectSeq(last.invoices, Has)
        IN  IF last.search = <<>>
            THEN last.shown = wanted
            ELSE \A i \in 1..Len(last.shown) : last.shown[i].status = last.status_filter

(***************************************************************************)
(* C26.  A salesman record with username 'admin' is never deactivated or   *)
(* deleted: every such row of the store is active, and it is in the store, *)
(* as it is, after every step of the login page and of the admin panel.    *)
(***************************************************************************)
C26_Step ==
    /\ \A i \in 1..Len(store.salesmen) :
          store.salesmen[i].username = "admin" =>
              /\ store.salesmen[i].active
              /\ store.salesmen[i] \in Range(store'.salesmen)
    /\ \A i \in 1..Len(store'.salesmen) :
          store'.salesmen[i].username = "admin" => store'.salesmen[i].active

C26_AdminStays == [][C26_Step]_vars

(* The admin has pressed Deactivate for another salesman: that salesman's  *)
(* row is inactive, the admin's own row is there and active.               *)
C26_Witness ==
    /\ last.op = "toggle_salesman"
    /\ \E i \in 1..Len(store.salesmen) :
          store.salesmen[i].username # "admin" /\ ~store.salesmen[i].active
    /\ \E i \in 1..Len(store.salesmen) :
          store.salesmen[i].username = "admin" /\ store.salesmen[i].active

(***************************************************************************)
(* C27.  Invoice deletion takes two clicks.  db.delete_invoice is called   *)
(* by a Delete click exactly when the session holds the confirmation flag  *)
(* of the invoice's number, which only an earlier Delete click of the      *)
(* session sets; a click without the flag sets it and leaves the store as  *)
(* it is; a deletion that succeeds deletes the flag and leaves no invoice  *)
(* of that number; a deletion that fails leaves the store as it is.  No    *)
(* other step removes an invoice.                                          *)
(***************************************************************************)
Flags(ss) == {k \in DOMAIN ss.extra : k # "show_admin" /\ ss.extra[k]}

C27_Step ==
    /\ RemovedInvoices # {} => last'.op = "delete_invoice_click" /\ last'.confirmed
    /\ \A s \in Sessions :
          Flags(session_state'[s]) \ Flags(session_state[s]) # {} =>
              /\ last'.op = "delete_invoice_click"
              /\ last'.sess = s
              /\ ~last'.confirmed
    /\ last'.op = "delete_invoice_click" =>
          LET key == "confirm_invoice_delete_" \o last'.invoice_number
              before == session_state[last'.sess]
              after == session_state'[last'.sess]
          IN  /\ last'.confirmed <=> key \in Flags(before)
              /\ ~last'.confirmed =>
                    /\ store' = store
                    /\ Flags(after) = Flags(before) \cup {key}
              /\ last'.confirmed /\ last'.done =>
                    /\ Flags(after) = Flags(before) \ {key}
                    /\ \A r \in Range(store'.invoices) :
                          r.invoice_number # last'.invoice_number
              /\ last'.confirmed /\ ~last'.done =>
                    /\ store' = store
                    /\ Flags(after) = Flags(before)

C27_TwoClicks == [][C27_Step]_vars

(* The second click on a listed invoice, with the deletion failing: the    *)
(* invoice is in the store and the flag is still set.                      *)
C27_Witness ==
    /\ last.op = "delete_invoice_click"
    /\ last.confirmed
    /\ ~last.done
    /\ \E i \in 1..Len(store.invoices) :
          store.invoices[i].invoice_number = last.invoice_number
    /\ "confirm_invoice_delete_" \o last.invoice_number \in Flags(session_state[last.sess])

(***************************************************************************)
(* C28.  Logout leaves the session state that init_session_state builds:   *)
(* authenticated false, current_user and user_role None, the cart empty,   *)
(* show_payment_popup false, both cache maps empty, and no key set on      *)
(* demand (show_admin, the delete confirmations, the editing flags).  A    *)
(* session that is not logged in holds nothing of a user, and in its cache *)
(* only the salesmen that the login page reads; a login starts from that.  *)
(***************************************************************************)
C28_LogoutClears ==
    /\ last.op = "logout" => session_state[last.sess] = init_session_state
    /\ \A s \in Sessions :
          ~session_state[s].authenticated =>
              /\ session_state[s].current_user = None
              /\ session_state[s].user_role = None
              /\ session_state[s].cart = <<>>
              /\ ~session_state[s].show_payment_popup
              /\ session_state[s].extra = EmptyDict
              /\ \A k \in DOMAIN session_state[s].data_cache : k.table = "salesmen"
    /\ last.op = "login" /\ last.success =>
          /\ session_state[last.sess].cart = <<>>
          /\ ~session_state[last.sess].show_payment_popup
          /\ session_state[last.sess].extra = EmptyDict
          /\ \A k \in DOMAIN session_state[last.sess].data_cache : k.table = "salesmen"

(* A logout of a session that had entries in the cart, the admin panel     *)
(* switch, a pending delete confirmation and cached listings.              *)
C28_Witness ==
    /\ last.op = "logout"
    /\ last.had.cart
    /\ "show_admin" \in last.had.extra
    /\ \E k \in last.had.extra : k # "show_admin"
    /\ last.had.cached # {}
    /\ session_state[last.sess] = init_session_state

(***************************************************************************)
(* C29.  An upload whose store calls all return inserts, in the order of   *)
(* the file, exactly the uploaded invoices that carry no 'customer' field  *)
(* or whose 'customer' equals the name of a customer row: the former as    *)
(* they are, the latter without 'customer' and with the customer_id of a   *)
(* customer of that name; the invoices that name no customer row are       *)
(* skipped, and the insert is called exactly when an invoice remains.  An  *)
(* upload in which a store call raises inserts nothing.                    *)
(***************************************************************************)
GainedInvoices == SubSeq(store'.invoices, Len(store.invoices) + 1, Len(store'.invoices))

NamesCustomer(inv) ==
    "customer" \notin DOMAIN inv \/ \E c \in Range(store.customers) : c.name = inv.customer

C29_Step ==
    last'.op = "upload" =>
        LET wanted == SelectSeq(last'.file, NamesCustomer)
            gained == GainedInvoices
        IN  /\ SubSeq(store'.invoices, 1, Len(store.invoices)) = store.invoices
            /\ ~last'.ok => gained = <<>>
            /\ last'.ok =>
                  /\ last'.insert_called <=> wanted # <<>>
                  /\ Len(gained) = Len(wanted)
                  /\ \A i \in 1..Len(wanted) :
                        /\ gained[i].invoice_number = wanted[i].invoice_number
                        /\ "customer" \notin DOMAIN gained[i]
                        /\ IF "customer" \in DOMAIN wanted[i]
                           THEN \E c \in Range(store.customers) :
                                    c.name = wanted[i].customer /\ gained[i].customer_id = c.id
                           ELSE gained[i].customer_id = wanted[i].customer_id

C29_Uploader == [][C29_Step]_vars

(* A file of two invoices was uploaded, one naming a registered customer   *)
(* and one naming a customer that differs from a registered one in case    *)
(* only: the first is in the store with the customer's id, the second was  *)
(* skipped.                                                                *)
C29_Witness ==
    /\ last.op = "upload"
    /\ last.ok
    /\ Len(last.file) = 2
    /\ \E i \in 1..2 :
          /\ "customer" \in DOMAIN last.file[i]
          /\ \A c \in Range(store.customers) : c.name # last.file[i].customer
          /\ \E c \in Range(store.customers) : Lower(c.name) = Lower(last.file[i].customer)
    /\ Len(store.invoices) = 1
    /\ "customer" \notin DOMAIN store.invoices[1]
    /\ \E c \in Range(store.customers) :
          c.id = store.invoices[1].customer_id /\ c.name \in {"ann", "Ann"}

(***************************************************************************)
(* C30.  In every session the two cache maps have the same keys: every     *)
(* cached value has a fetch timestamp, and no timestamp is left once its   *)
(* value is removed.                                                       *)
(***************************************************************************)
C30_SameKeys ==
    \A s \in Sessions :
        DOMAIN session_state[s].data_cache = DOMAIN session_state[s].last_cache_update


=============================================================================
